---- MODULE Spec2Model ----
(***************************************************************************)
(* The build-and-publish orchestrator of src/app.py: the in-process status *)
(* store, the /start request handler and the background pipeline run       *)
(* (build_and_publish), as a state machine.                                *)
(*                                                                         *)
(* Request handlers and pipeline runs are threads.  Every access to STATUS *)
(* is one atomic step (set_status / get_status hold STATUS_LOCK for the    *)
(* whole access); the code between two accesses of the shared state (the   *)
(* store, the remote content store) is local to its thread and is folded   *)
(* into the step of the access that precedes it.  What the collaborators   *)
(* and the remote services answer is chosen nondeterministically.          *)
(* Variables marked (history) record what happened; no action reads them   *)
(* to decide what the program does.  The history of permanent successes    *)
(* (published, hlate, rlate) is recorded in the behaviours of SpecTracked  *)
(* only, which keeps the state space of Spec small.                        *)
(***************************************************************************)
EXTENDS Integers, Sequences, FiniteSets, TLC

\* ------------------------------------------------------------------ bounds
\* Pipeline threads that can exist at the same time (a thread slot is reused
\* once its run has returned).
MaxRuns == 2
\* /start requests that can be inside the handler at the same time.
MaxHandlers == 2
\* Loop iterations a readiness wait gets through before its deadline.
MaxPolls == 2

\* Threads that call set_status / get_status at the same time (SpecStore).
MaxThreads == 2

\* Writes that others make to the branch while the process runs (SpecUpload).
MaxEdits == 2

\* Seconds a readiness query takes at most before it answers or raises
\* (SpecWait).
MaxQuerySeconds == 2

\* Generator invocations over the life of the process, and the widths in bits
\* of the modelled SHA-256 digest and of the seed taken from it (SpecGen).
MaxStarts == 3
DigestBits == 12
SeedBits == 6

Runs == 1..MaxRuns
Threads == 1..MaxThreads
NoThread == 0
\* The names tempfile can give a temporary directory, and "no directory".
TmpNames == 1..MaxRuns
NoDir == 0
Handlers == 1..MaxHandlers
\* The two invocations of a generator that are compared (SpecGen).
Invocations == {1, 2}
\* Identifiers that pass the pattern check of /start.
Uuids == {"aaaa-0000-0000-0001"}

\* ------------------------------------------------------- program constants
SCENARIOS == <<1, 2, 3, 4, 5>>
PAGES_BASE == "PAGES_BASE"
None == "None"

\* total_steps = (len(SCENARIOS) * 3) + 4
total_steps == (Len(SCENARIOS) * 3) + 4

\* f"{PAGES_BASE}/{uuid}/"
pages_url_of(uuid) == PAGES_BASE \o "/" \o uuid \o "/"

\* StageName as it would be if every stage were named after the first scenario.
StageName_first(kind, s) == kind \o "_s1"

\* f"generate_s{s}", f"compile_s{s}", f"upload_s{s}"
StageName(kind, s) ==
    kind \o "_s" \o (CASE s = 1 -> "1" [] s = 2 -> "2" [] s = 3 -> "3"
                       [] s = 4 -> "4" [] s = 5 -> "5" [] OTHER -> "?")

\* ------------------------------------------------------------ status store
\* A Python dict is a function from its keys; {} is the function of no keys.
EmptyDict == [k \in {} |-> None]

\* dict.get(k): the value, or None for a key the dict does not hold.
Get(s, k) == IF k \in DOMAIN s THEN s[k] ELSE None

\* s.update(fields): the named keys are overwritten, the others kept.
Update(s, fields) == fields @@ s

\* Truthiness of s.get("done") and of s.get("pages_url").
DoneTruthy(s) == "done" \in DOMAIN s /\ s.done = TRUE
UrlTruthy(s) == "pages_url" \in DOMAIN s /\ s.pages_url # None /\ s.pages_url # ""

VARIABLES
    STATUS,     \* uuid -> dict, the status store ({} for an identifier never set)
    remote,     \* uuid -> the folder <uuid>/ exists on the publishing branch
    hpc,        \* handler -> where the /start request is
    huuid,      \* handler -> the identifier of its request
    hlate,      \* handler -> the request arrived after a permanent success (history)
    rpc,        \* run -> where the pipeline thread is
    ruuid,      \* run -> its identifier
    rstep,      \* run -> its local variable `step`
    rs,         \* run -> the scenario index of the loop it is in (0 outside loops)
    rws,        \* run -> the name of its temporary directory (NoDir when it has none)
    rlate,      \* run -> it was spawned by a late request (history)
    calls,      \* run -> the external operations it has invoked, with results (history)
    published,  \* uuid -> the record has been terminal with a URL and no error (history)
    track       \* whether `published` is recorded in this behaviour (history)

\* The store as Python holds it: STATUS maps an identifier to a reference to a
\* dict object, and set_status / get_status are sequences of steps of a thread
\* inside `with STATUS_LOCK`.  SpecStore runs threads that call the two
\* functions on this representation; in the other specifications these
\* variables do not change, and STATUS above is the store by value.
VARIABLES
    heap,         \* object reference -> the dict object it refers to
    table,        \* STATUS as references: identifier -> reference (keys that are set)
    STATUS_LOCK,  \* the thread that holds the lock (NoThread when it is free)
    tpc,          \* thread -> where it is
    targ,         \* thread -> the arguments of its call
    tloc,         \* thread -> the reference in its local `s` (NoObj outside set_status)
    tkeys,        \* thread -> the keys s.update(fields) has still to write
    tret,         \* thread -> the reference get_status returned to it (NoObj if none)
    tpre,         \* thread -> the stored records when its set_status began (history)
    committed     \* the stored records when the lock was last released (history)

svars == <<heap, table, STATUS_LOCK, tpc, targ, tloc, tkeys, tret, tpre, committed>>

\* The requests as HTTP sees them (SpecHttp) and the remote content store path by
\* path, with upload_file as its two requests (SpecUpload).  In the other
\* specifications these variables do not change.
VARIABLES
    qresp,      \* the response a request handler sent last
    files,      \* path of <uuid>/ -> the content the branch holds there (NoFile if none)
    usha,       \* run -> the local `sha` of its upload_file call
    uphase,     \* run -> the request its upload_file call makes next ("get" or "put")
    ulog,       \* run -> the requests of its latest upload_file call (history)
    edits       \* writes to the branch made by others so far

uvars == <<files, usha, uphase, ulog, edits>>

\* The two readiness waits poll by poll against a clock (SpecWait), the
\* waiting-room page's poller (SpecPoll) and invocations of the scenario
\* generators (SpecGen).  In the other specifications these variables do not
\* change.
VARIABLES
    wpc,        \* where the wait is: "idle", "loop", "query", "sleep", "returned", "raised"
    wkind,      \* which wait was called: "build" or "url"
    wnow,       \* time.time(), in seconds since the wait was called
    wdeadline,  \* the local `deadline`
    wlast,      \* the local `last_status`
    wret,       \* what the wait returned (None before it has)
    wans,       \* what the latest query of this wait gave ("" before the first)
    wseen,      \* the answers the queries of this wait gave so far (history)
    ppc,        \* the page's poller: "polling", or why it stopped
    gpc,        \* invocation -> where it is
    guuid,      \* invocation -> the text passed as --uuid
    gscen,      \* invocation -> the scenario whose generator runs
    grng,       \* invocation -> the state of its random.Random
    gparams,    \* invocation -> the parameters drawn so far
    gsum,       \* invocation -> the checksum
    gtex,       \* invocation -> the rendered text
    gstart,     \* invocation -> the wall clock when it began
    gtime       \* the wall clock, which moves between invocations

wvars == <<wpc, wkind, wnow, wdeadline, wlast, wret, wans, wseen>>
gvars == <<gpc, guuid, gscen, grng, gparams, gsum, gtex, gstart, gtime>>
xvars == <<wvars, ppc, gvars>>
evars == <<qresp, uvars, xvars>>

pvars == <<STATUS, remote, hpc, huuid, hlate, rpc, ruuid, rstep, rs, rws,
           rlate, calls, published, track>>

vars == <<STATUS, remote, hpc, huuid, hlate, rpc, ruuid, rstep, rs, rws,
          rlate, calls, published, track, svars, evars>>

hvars == <<hpc, huuid, hlate>>
rlocals == <<rpc, ruuid, rstep, rs, rws, rlate, calls>>

\* A record is a permanent success: terminal, a URL, no error.
Success(s) == DoneTruthy(s) /\ UrlTruthy(s) /\ Get(s, "error") = None

\* set_status as it would be if the fields were merged into every record.
set_status_store_all(uuid, fields) ==
    [u \in DOMAIN STATUS |-> Update(STATUS[u], fields)]

\* set_status(uuid, **fields): the merge, under STATUS_LOCK, as one step.
set_status_store(uuid, fields) ==
    [STATUS EXCEPT ![uuid] = Update(STATUS[uuid], fields)]

set_status(uuid, fields) ==
    /\ STATUS' = set_status_store(uuid, fields)
    /\ published' = [published EXCEPT
                       ![uuid] = @ \/ (track /\ Success(STATUS'[uuid]))]
    /\ UNCHANGED <<track, svars, evars>>

\* get_status(uuid): a copy of the record, {} when there is none.
get_status(uuid) == STATUS[uuid]

\* A fresh process: an empty store, no request, no run; the folder of an
\* identifier may be on the branch already (published by an earlier process).
InitState ==
    /\ STATUS = [u \in Uuids |-> EmptyDict]
    /\ remote \in [Uuids -> BOOLEAN]
    /\ hpc = [h \in Handlers |-> "idle"]
    /\ huuid = [h \in Handlers |-> None]
    /\ hlate = [h \in Handlers |-> FALSE]
    /\ rpc = [r \in Runs |-> "idle"]
    /\ ruuid = [r \in Runs |-> None]
    /\ rstep = [r \in Runs |-> 0]
    /\ rs = [r \in Runs |-> 0]
    /\ rws = [r \in Runs |-> NoDir]
    /\ rlate = [r \in Runs |-> FALSE]
    /\ calls = [r \in Runs |-> <<>>]
    /\ published = [u \in Uuids |-> FALSE]

\* The identifiers of SpecStore, the dict objects that can be alive at once (one
\* per stored record, one per thread) and "no object".
StoreUuids == Uuids \cup {"bbbb-0000-0000-0002"}
ObjIds == 1..(Cardinality(StoreUuids) + MaxThreads)
NoObj == 0

\* The arguments of a thread that is in no call.
NoCall == [uuid |-> None, fields |-> EmptyDict]

\* STATUS = {} and STATUS_LOCK free, no thread inside a call.
InitStore ==
    /\ heap = [o \in {} |-> EmptyDict]
    /\ table = [u \in {} |-> NoObj]
    /\ STATUS_LOCK = NoThread
    /\ tpc = [t \in Threads |-> "idle"]
    /\ targ = [t \in Threads |-> NoCall]
    /\ tloc = [t \in Threads |-> NoObj]
    /\ tkeys = [t \in Threads |-> {}]
    /\ tret = [t \in Threads |-> NoObj]
    /\ tpre = [t \in Threads |-> [u \in StoreUuids |-> {}]]
    /\ committed = [u \in StoreUuids |-> {}]

\* An argument of a request: the value of ?uuid=, as its characters, or no
\* such parameter.
Missing == [given |-> FALSE, value |-> <<>>]
Given(chars) == [given |-> TRUE, value |-> chars]

\* No response sent yet.
NoResponse == [route |-> None, arg |-> Missing, code |-> 0, body |-> None]

\* f"{uuid}/mengm0056_s{s}_handout.pdf" and f"{uuid}/index.html", within <uuid>/.
PdfPath(s) == StageName("mengm0056", s) \o "_handout.pdf"
IndexPath == "index.html"
Paths == {PdfPath(SCENARIOS[i]) : i \in 1..Len(SCENARIOS)} \cup {IndexPath}
NoFile == "NoFile"

\* No request has been answered, nothing is on the branch, no upload is under way.
\* No wait has been called, the page has just been loaded, and no generator has
\* been invoked.
InitQuiet ==
    /\ wpc = "idle" /\ wkind = "build" /\ wnow = 0 /\ wdeadline = 0
    /\ wlast = None /\ wret = None /\ wans = "" /\ wseen = {}
    /\ ppc = "polling"
    /\ gpc = [i \in Invocations |-> "idle"]
    /\ guuid = [i \in Invocations |-> <<>>]
    /\ gscen = [i \in Invocations |-> 1]
    /\ grng = [i \in Invocations |-> 0]
    /\ gparams = [i \in Invocations |-> <<>>]
    /\ gsum = [i \in Invocations |-> 0]
    /\ gtex = [i \in Invocations |-> <<>>]
    /\ gstart = [i \in Invocations |-> 0]
    /\ gtime = 0

InitIdle ==
    /\ InitQuiet
    /\ qresp = NoResponse
    /\ files = [p \in Paths |-> NoFile]
    /\ usha = [r \in Runs |-> None]
    /\ uphase = [r \in Runs |-> "get"]
    /\ ulog = [r \in Runs |-> <<>>]
    /\ edits = 0

Init == InitState /\ track = FALSE /\ InitStore /\ InitIdle

\* The same, with the history of permanent successes recorded.
InitTracked == InitState /\ track = TRUE /\ InitStore /\ InitIdle

\* ------------------------------------------------------------ GET /start
\* `not s or (s.get("done") and not s.get("pages_url"))`
start_needed(s) == s = EmptyDict \/ (DoneTruthy(s) /\ ~UrlTruthy(s))

\* queued_fields as it would be if the reset named no stage.
queued_fields_no_stage ==
    [step |-> 0, total |-> total_steps, done |-> FALSE, error |-> None]

\* queued_fields as it would be if the reset forgot to clear `error`.
queued_fields_keeps_error ==
    [stage |-> "queued", step |-> 0, total |-> total_steps, done |-> FALSE]

\* The fields /start writes before it spawns the run.
queued_fields ==
    [stage |-> "queued", step |-> 0, total |-> total_steps, done |-> FALSE,
     error |-> None]

\* start, up to the decision: s = get_status(uuid) and the test on s.  A request
\* that needs no build returns the waiting-room page at once.
StartReadStep(h, u) ==
    /\ hpc[h] = "idle"
    /\ IF start_needed(get_status(u))
       THEN /\ hpc' = [hpc EXCEPT ![h] = "reset"]
            /\ huuid' = [huuid EXCEPT ![h] = u]
            /\ hlate' = [hlate EXCEPT ![h] = published[u]]
       ELSE UNCHANGED hvars
    /\ UNCHANGED <<STATUS, remote, published, track, svars, rlocals>>

StartRead(h, u) == StartReadStep(h, u) /\ UNCHANGED evars

\* start: set_status(uuid, stage="queued", ...).
StartReset(h) ==
    /\ hpc[h] = "reset"
    /\ set_status(huuid[h], queued_fields)
    /\ hpc' = [hpc EXCEPT ![h] = "spawn"]
    /\ UNCHANGED <<remote, huuid, hlate, rlocals>>

\* The thread slots that hold no run.
FreeRuns == {r \in Runs : rpc[r] = "idle"}

\* start: threading.Thread(target=build_and_publish, args=(uuid,)).start(), then
\* the waiting-room page is returned.
StartSpawnStep(h) ==
    /\ hpc[h] = "spawn"
    /\ FreeRuns # {}
    /\ LET r == CHOOSE x \in FreeRuns : \A y \in FreeRuns : x <= y IN
         /\ rpc' = [rpc EXCEPT ![r] = "begin"]
         /\ ruuid' = [ruuid EXCEPT ![r] = huuid[h]]
         /\ rstep' = [rstep EXCEPT ![r] = 0]
         /\ rs' = [rs EXCEPT ![r] = 0]
         /\ rws' = [rws EXCEPT ![r] = NoDir]
         /\ rlate' = [rlate EXCEPT ![r] = hlate[h]]
         /\ calls' = [calls EXCEPT ![r] = <<>>]
    /\ hpc' = [hpc EXCEPT ![h] = "idle"]
    /\ huuid' = [huuid EXCEPT ![h] = None]
    /\ hlate' = [hlate EXCEPT ![h] = FALSE]
    /\ UNCHANGED <<STATUS, remote, published, track, svars>>

StartSpawn(h) == StartSpawnStep(h) /\ UNCHANGED evars

\* ------------------------------------------------- external collaborators
\* What the remote content store can answer to a read of <uuid>/: 200 only when
\* the folder is there, 404 only when it is not, another status (rate limit,
\* authorization, server error) or no answer at all (requests raises) any time.
ExistsReplies(u) ==
    (IF remote[u] THEN {"200"} ELSE {"404"}) \cup {"403", "raise"}

\* uuid_folder_exists as it would be if only a 404 meant that the folder is not
\* there.
uuid_folder_exists_unless_404(reply) == reply # "404"

\* uuid_folder_exists: gh_get(uuid).status_code == 200
uuid_folder_exists(reply) == reply = "200"

\* subprocess.run(..., check=True): exit status 0, CalledProcessError on a
\* non-zero exit, OSError when the program cannot be run.
ProcessResults == {"ok", "nonzero", "oserror"}

\* gh_get(path) inside upload_file (a file can be there only if its folder is),
\* then the answer to the PUT.
GetReplies(u) == (IF remote[u] THEN {"200"} ELSE {}) \cup {"404", "raise"}
PutReplies == {"200", "201", "409", "raise"}

\* gh_put as it would be if the status of the answer were not looked at.
gh_put_ignores_status(put) == IF put = "raise" THEN "raise" ELSE "ok"

\* gh_put: raises unless the status is 200 or 201.
gh_put(put) == IF put \in {"200", "201"} THEN "ok" ELSE "raise"

\* upload_file: one read of the path (for its sha), one write.
upload_file(get, put) == IF get = "raise" THEN "raise" ELSE gh_put(put)

\* trigger_pages_build: raises unless the status is 200, 201 or 204.
TriggerReplies == {"201", "403", "raise"}
trigger_pages_build(reply) == IF reply \in {"200", "201", "204"} THEN "ok" ELSE "raise"

\* The answers of get_latest_pages_build at the iterations a wait gets through
\* before its deadline: a status, or an exception.
BuildReplies == {"built", "errored", "building", "raise"}
UrlReplies == {"200", "404", "raise"}

RECURSIVE SeqsUpTo(_, _)
SeqsUpTo(S, n) ==
    IF n = 0 THEN {<<>>}
    ELSE LET shorter == SeqsUpTo(S, n - 1) IN
         shorter \cup {Append(q, x) : q \in {p \in shorter : Len(p) = n - 1}, x \in S}

\* wait_for_pages_build: the loop over the polls; `last_status or "unknown"` at
\* the deadline.
RECURSIVE wait_loop(_, _)
wait_loop(polls, last_status) ==
    IF polls = <<>>
    THEN (IF last_status = None THEN "unknown" ELSE last_status)
    ELSE IF Head(polls) = "raise" THEN wait_loop(Tail(polls), last_status)
    ELSE IF Head(polls) \in {"built", "errored"} THEN Head(polls)
    ELSE wait_loop(Tail(polls), Head(polls))

wait_for_pages_build(polls) == wait_loop(polls, None)

\* wait_for_url_200: True at the first 200, False at the deadline.
RECURSIVE wait_for_url_200(_)
wait_for_url_200(polls) ==
    IF polls = <<>> THEN FALSE
    ELSE IF Head(polls) = "200" THEN TRUE
    ELSE wait_for_url_200(Tail(polls))

\* ------------------------------------------------------ build_and_publish
\* The fields of each set_status of the run.

\* starting_fields as they would be with the page's fallback total of 100.
starting_fields_total_100 ==
    [stage |-> "starting", step |-> 0, total |-> 100, done |-> FALSE,
     error |-> None]

starting_fields ==
    [stage |-> "starting", step |-> 0, total |-> total_steps, done |-> FALSE,
     error |-> None]
\* already_fields as it would be if the short-circuit left `step` alone.
already_fields_keeps_step == [stage |-> "already_published"]

already_fields == [stage |-> "already_published", step |-> total_steps - 1]
\* already_done_fields as it would be if the short-circuit published the URL only.
already_done_fields_url_only(uuid) == [pages_url |-> pages_url_of(uuid)]

already_done_fields(uuid) == [done |-> TRUE, pages_url |-> pages_url_of(uuid)]
stage_fields(stage, step) == [stage |-> stage, step |-> step]
propagating_fields(uuid, step) ==
    [stage |-> "pages_propagating", step |-> step, pages_url |-> pages_url_of(uuid)]
\* done_fields as it would be if the last write named no stage.
done_fields_no_stage(uuid) ==
    [step |-> total_steps, done |-> TRUE, pages_url |-> pages_url_of(uuid),
     error |-> None]
\* done_fields as it would be if the last write published the local `step`.
done_fields_local_step(uuid) ==
    [stage |-> "done", step |-> total_steps + 1, done |-> TRUE,
     pages_url |-> pages_url_of(uuid), error |-> None]

done_fields(uuid) ==
    [stage |-> "done", step |-> total_steps, done |-> TRUE,
     pages_url |-> pages_url_of(uuid), error |-> None]
\* error_fields as it would be if a failure did not end the job.
error_fields_not_done(message) == [error |-> message, pages_url |-> None]
\* error_fields as it would be if a failure left the URL alone.
error_fields_keeps_url(message) == [done |-> TRUE, error |-> message]

error_fields(message) == [done |-> TRUE, error |-> message, pages_url |-> None]

\* A set_status of run r.
RunWrite(r, fields) == set_status(ruuid[r], fields)

\* History: run r invoked the external operation op (for scenario s), with res.
Call(r, op, s, res) ==
    calls' = [calls EXCEPT ![r] = Append(@, [op |-> op, s |-> s, res |-> res])]

\* The thread returns: its locals are gone and its slot holds no run.
Return(r) ==
    /\ rpc' = [rpc EXCEPT ![r] = "idle"]
    /\ ruuid' = [ruuid EXCEPT ![r] = None]
    /\ rstep' = [rstep EXCEPT ![r] = 0]
    /\ rs' = [rs EXCEPT ![r] = 0]
    /\ rws' = [rws EXCEPT ![r] = NoDir]
    /\ rlate' = [rlate EXCEPT ![r] = FALSE]
    /\ calls' = [calls EXCEPT ![r] = <<>>]

\* mkdtemp as it would be if the directory were named after the identifier
\* alone: the name is in use when another run has made its directory.
mkdtemp_fixed_name == {1}

\* tempfile.TemporaryDirectory(): a directory is made under a name that no
\* existing directory has (mkdtemp retries a name that exists).
mkdtemp == TmpNames \ {rws[r] : r \in Runs}

\* Raise as it would be if a call that failed were made again.
Raise_retries(r, handler) ==
    /\ rpc' = rpc
    /\ rws' = rws

\* Raise as it would be if a failed call were ignored and the run went on to
\* the upload of the index.
Raise_goes_on(r, handler) ==
    /\ rpc' = [rpc EXCEPT ![r] = "upload_index_label"]
    /\ rws' = rws

\* Where an exception raised at a call takes the run: the except clause of its
\* class, after the temporary directory (if the run is inside it) is removed.
Raise(r, handler) ==
    /\ rpc' = [rpc EXCEPT ![r] = handler]
    /\ rws' = [rws EXCEPT ![r] = NoDir]

\* step = 0; set_status(uuid, stage="starting", ...)
RunStarting(r) ==
    /\ rpc[r] = "begin"
    /\ RunWrite(r, starting_fields)
    /\ rstep' = [rstep EXCEPT ![r] = 0]
    /\ rpc' = [rpc EXCEPT ![r] = "check"]
    /\ UNCHANGED <<remote, hpc, huuid, hlate, ruuid, rs, rws, rlate, calls>>

\* if uuid_folder_exists(uuid): ... ; otherwise the temporary directory is made
\* and the loop over SCENARIOS is entered.
RunCheck(r) ==
    /\ rpc[r] = "check"
    /\ \E reply \in ExistsReplies(ruuid[r]) :
         /\ Call(r, "exists", 0, IF reply = "raise" THEN "raise"
                                  ELSE IF uuid_folder_exists(reply) THEN "True"
                                  ELSE "False")
         /\ IF reply = "raise"
            THEN Raise(r, "except_exception") /\ UNCHANGED rs
            ELSE IF uuid_folder_exists(reply)
            THEN rpc' = [rpc EXCEPT ![r] = "already"] /\ UNCHANGED <<rs, rws>>
            ELSE /\ rpc' = [rpc EXCEPT ![r] = "generate"]
                 /\ rs' = [rs EXCEPT ![r] = 1]
                 /\ \E tmp \in mkdtemp : rws' = [rws EXCEPT ![r] = tmp]
    /\ UNCHANGED <<STATUS, remote, published, track, svars, evars, hvars, ruuid, rstep, rlate>>

\* set_status(uuid, stage="already_published", step=total_steps-1)
RunAlready(r) ==
    /\ rpc[r] = "already"
    /\ RunWrite(r, already_fields)
    /\ rpc' = [rpc EXCEPT ![r] = "already_done"]
    /\ UNCHANGED <<remote, hpc, huuid, hlate, ruuid, rstep, rs, rws, rlate, calls>>

\* set_status(uuid, done=True, pages_url=...); return
RunAlreadyDone(r) ==
    /\ rpc[r] = "already_done"
    /\ RunWrite(r, already_done_fields(ruuid[r]))
    /\ Return(r)
    /\ UNCHANGED <<remote, hpc, huuid, hlate>>

\* for s in SCENARIOS: step += 1; set_status(stage=f"generate_s{s}"); the generator
\* is run with its output captured into the .tex file.
RunGenerate(r) ==
    /\ rpc[r] = "generate"
    /\ rstep' = [rstep EXCEPT ![r] = @ + 1]
    /\ RunWrite(r, stage_fields(StageName("generate", SCENARIOS[rs[r]]), rstep'[r]))
    /\ \E res \in ProcessResults :
         /\ Call(r, "generate", SCENARIOS[rs[r]], res)
         /\ CASE res = "ok" -> rpc' = [rpc EXCEPT ![r] = "compile"] /\ UNCHANGED rws
              [] res = "nonzero" -> Raise(r, "except_called_process")
              [] OTHER -> Raise(r, "except_exception")
    /\ UNCHANGED <<remote, hpc, huuid, hlate, ruuid, rs, rlate>>

\* step += 1; set_status(stage=f"compile_s{s}"); latexmk is run in the temporary
\* directory; then the next scenario, or the index after the last.
RunCompile(r) ==
    /\ rpc[r] = "compile"
    /\ rstep' = [rstep EXCEPT ![r] = @ + 1]
    /\ RunWrite(r, stage_fields(StageName("compile", SCENARIOS[rs[r]]), rstep'[r]))
    /\ \E res \in ProcessResults :
         /\ Call(r, "compile", SCENARIOS[rs[r]], res)
         /\ CASE res = "ok" ->
                   /\ IF rs[r] < Len(SCENARIOS)
                      THEN /\ rpc' = [rpc EXCEPT ![r] = "generate"]
                           /\ rs' = [rs EXCEPT ![r] = @ + 1]
                      ELSE /\ rpc' = [rpc EXCEPT ![r] = "write_index"]
                           /\ rs' = [rs EXCEPT ![r] = 0]
                   /\ UNCHANGED rws
              [] res = "nonzero" -> Raise(r, "except_called_process") /\ UNCHANGED rs
              [] OTHER -> Raise(r, "except_exception") /\ UNCHANGED rs
    /\ UNCHANGED <<remote, hpc, huuid, hlate, ruuid, rlate>>

\* step += 1; set_status(stage="write_index"); index.html is written into the
\* temporary directory.
RunWriteIndex(r) ==
    /\ rpc[r] = "write_index"
    /\ rstep' = [rstep EXCEPT ![r] = @ + 1]
    /\ RunWrite(r, stage_fields("write_index", rstep'[r]))
    /\ \E res \in {"ok", "oserror"} :
         /\ Call(r, "write_index", 0, res)
         /\ IF res = "ok"
            THEN /\ rpc' = [rpc EXCEPT ![r] = "upload_label"]
                 /\ rs' = [rs EXCEPT ![r] = 1]
                 /\ UNCHANGED rws
            ELSE Raise(r, "except_exception") /\ UNCHANGED rs
    /\ UNCHANGED <<remote, hpc, huuid, hlate, ruuid, rlate>>

\* for s in SCENARIOS: step += 1; set_status(stage=f"upload_s{s}")
RunUploadLabel(r) ==
    /\ rpc[r] = "upload_label"
    /\ rstep' = [rstep EXCEPT ![r] = @ + 1]
    /\ RunWrite(r, stage_fields(StageName("upload", SCENARIOS[rs[r]]), rstep'[r]))
    /\ rpc' = [rpc EXCEPT ![r] = "upload"]
    /\ UNCHANGED <<remote, hpc, huuid, hlate, ruuid, rs, rws, rlate, calls>>

\* upload_file(f"{uuid}/mengm0056_s{s}_handout.pdf", ...)
RunUpload(r) ==
    /\ rpc[r] = "upload"
    /\ \E get \in GetReplies(ruuid[r]), put \in PutReplies :
         LET res == upload_file(get, put) IN
         /\ Call(r, "upload", SCENARIOS[rs[r]], res)
         /\ IF res = "ok"
            THEN /\ remote' = [remote EXCEPT ![ruuid[r]] = TRUE]
                 /\ IF rs[r] < Len(SCENARIOS)
                    THEN /\ rpc' = [rpc EXCEPT ![r] = "upload_label"]
                         /\ rs' = [rs EXCEPT ![r] = @ + 1]
                    ELSE /\ rpc' = [rpc EXCEPT ![r] = "upload_index_label"]
                         /\ rs' = [rs EXCEPT ![r] = 0]
                 /\ UNCHANGED rws
            ELSE Raise(r, "except_exception") /\ UNCHANGED <<remote, rs>>
    /\ UNCHANGED <<STATUS, published, track, svars, evars, hvars, ruuid, rstep, rlate>>

\* step += 1; set_status(stage="upload_index")
RunUploadIndexLabel(r) ==
    /\ rpc[r] = "upload_index_label"
    /\ rstep' = [rstep EXCEPT ![r] = @ + 1]
    /\ RunWrite(r, stage_fields("upload_index", rstep'[r]))
    /\ rpc' = [rpc EXCEPT ![r] = "upload_index"]
    /\ UNCHANGED <<remote, hpc, huuid, hlate, ruuid, rs, rws, rlate, calls>>

\* upload_file(f"{uuid}/index.html", ...); the `with` block ends and the
\* temporary directory is removed.
RunUploadIndex(r) ==
    /\ rpc[r] = "upload_index"
    /\ \E get \in GetReplies(ruuid[r]), put \in PutReplies :
         LET res == upload_file(get, put) IN
         /\ Call(r, "upload_index", 0, res)
         /\ IF res = "ok"
            THEN /\ remote' = [remote EXCEPT ![ruuid[r]] = TRUE]
                 /\ rpc' = [rpc EXCEPT ![r] = "trigger"]
                 /\ rws' = [rws EXCEPT ![r] = NoDir]
            ELSE Raise(r, "except_exception") /\ UNCHANGED remote
    /\ UNCHANGED <<STATUS, published, track, svars, evars, hvars, ruuid, rstep, rs, rlate>>

\* step += 1; set_status(stage="trigger_pages_build"); trigger_pages_build()
RunTrigger(r) ==
    /\ rpc[r] = "trigger"
    /\ rstep' = [rstep EXCEPT ![r] = @ + 1]
    /\ RunWrite(r, stage_fields("trigger_pages_build", rstep'[r]))
    /\ \E reply \in TriggerReplies :
         LET res == trigger_pages_build(reply) IN
         /\ Call(r, "trigger", 0, res)
         /\ IF res = "ok"
            THEN rpc' = [rpc EXCEPT ![r] = "building"] /\ UNCHANGED rws
            ELSE Raise(r, "except_exception")
    /\ UNCHANGED <<remote, hpc, huuid, hlate, ruuid, rs, rlate>>

\* step += 1; set_status(stage="pages_building"); status = wait_for_pages_build()
RunBuilding(r) ==
    /\ rpc[r] = "building"
    /\ rstep' = [rstep EXCEPT ![r] = @ + 1]
    /\ RunWrite(r, stage_fields("pages_building", rstep'[r]))
    /\ \E polls \in SeqsUpTo(BuildReplies, MaxPolls) :
         LET status == wait_for_pages_build(polls) IN
         /\ Call(r, "wait_build", 0, status)
         /\ rpc' = [rpc EXCEPT ![r] = IF status = "errored" THEN "build_failed"
                                      ELSE "propagating"]
    /\ UNCHANGED <<remote, hpc, huuid, hlate, ruuid, rs, rws, rlate>>

\* set_status(done=True, error="GitHub Pages build failed", pages_url=None); return
RunBuildFailed(r) ==
    /\ rpc[r] = "build_failed"
    /\ RunWrite(r, error_fields("GitHub Pages build failed"))
    /\ Return(r)
    /\ UNCHANGED <<remote, hpc, huuid, hlate>>

\* step += 1; set_status(stage="pages_propagating", step, pages_url);
\* _ok = wait_for_url_200(pages_url)
RunPropagating(r) ==
    /\ rpc[r] = "propagating"
    /\ rstep' = [rstep EXCEPT ![r] = @ + 1]
    /\ RunWrite(r, propagating_fields(ruuid[r], rstep'[r]))
    /\ \E polls \in SeqsUpTo(UrlReplies, MaxPolls) :
         Call(r, "wait_url", 0, IF wait_for_url_200(polls) THEN "True" ELSE "False")
    /\ rpc' = [rpc EXCEPT ![r] = "done"]
    /\ UNCHANGED <<remote, hpc, huuid, hlate, ruuid, rs, rws, rlate>>

\* set_status(stage="done", step=total_steps, done=True, pages_url, error=None)
RunDone(r) ==
    /\ rpc[r] = "done"
    /\ RunWrite(r, done_fields(ruuid[r]))
    /\ Return(r)
    /\ UNCHANGED <<remote, hpc, huuid, hlate>>

\* except subprocess.CalledProcessError: set_status(done=True, error="Build error: ...")
RunExceptCalledProcess(r) ==
    /\ rpc[r] = "except_called_process"
    /\ RunWrite(r, error_fields("Build error"))
    /\ Return(r)
    /\ UNCHANGED <<remote, hpc, huuid, hlate>>

\* except Exception: set_status(done=True, error="Server error: ...")
RunExceptException(r) ==
    /\ rpc[r] = "except_exception"
    /\ RunWrite(r, error_fields("Server error"))
    /\ Return(r)
    /\ UNCHANGED <<remote, hpc, huuid, hlate>>

\* One step of the pipeline thread r.
build_and_publish(r) ==
    \/ RunStarting(r)
    \/ RunCheck(r)
    \/ RunAlready(r)
    \/ RunAlreadyDone(r)
    \/ RunGenerate(r)
    \/ RunCompile(r)
    \/ RunWriteIndex(r)
    \/ RunUploadLabel(r)
    \/ RunUpload(r)
    \/ RunUploadIndexLabel(r)
    \/ RunUploadIndex(r)
    \/ RunTrigger(r)
    \/ RunBuilding(r)
    \/ RunBuildFailed(r)
    \/ RunPropagating(r)
    \/ RunDone(r)
    \/ RunExceptCalledProcess(r)
    \/ RunExceptException(r)

\* One step of a /start request.
start(h) ==
    \/ \E u \in Uuids : StartRead(h, u)
    \/ StartReset(h)
    \/ StartSpawn(h)

Next ==
    \/ \E h \in Handlers : start(h)
    \/ \E r \in Runs : build_and_publish(r)

Spec == Init /\ [][Next]_vars

\* The behaviours in which /start requests do not overlap: one request is
\* handled to its end before the next arrives.
NextOneRequest ==
    \/ start(1)
    \/ \E r \in Runs : build_and_publish(r)

SpecOneRequest == Init /\ [][NextOneRequest]_vars

\* Spec with the history of permanent successes recorded.
SpecTracked == InitTracked /\ [][Next]_vars

\* SpecOneRequest with every pipeline thread scheduled again and again: a thread
\* that can take a step (its call has returned) takes it.  No step of a run waits
\* for another thread, so a run ends under any interleaving if it ends here.
SpecFair == SpecOneRequest /\ \A r \in Runs : WF_vars(build_and_publish(r))

\* ------------------------------------------------------- two identifiers
\* Two clients, each with an identifier of its own: handler 1 serves the requests
\* for JobX, handler 2 those for JobY.
JobX == CHOOSE u \in Uuids : TRUE
JobY == CHOOSE u \in StoreUuids \ Uuids : TRUE

\* A fresh process and an empty branch.
InitTwoJobs ==
    /\ STATUS = [u \in StoreUuids |-> EmptyDict]
    /\ remote = [u \in StoreUuids |-> FALSE]
    /\ hpc = [h \in Handlers |-> "idle"]
    /\ huuid = [h \in Handlers |-> None]
    /\ hlate = [h \in Handlers |-> FALSE]
    /\ rpc = [r \in Runs |-> "idle"]
    /\ ruuid = [r \in Runs |-> None]
    /\ rstep = [r \in Runs |-> 0]
    /\ rs = [r \in Runs |-> 0]
    /\ rws = [r \in Runs |-> NoDir]
    /\ rlate = [r \in Runs |-> FALSE]
    /\ calls = [r \in Runs |-> <<>>]
    /\ published = [u \in StoreUuids |-> FALSE]
    /\ track = FALSE
    /\ InitStore
    /\ InitIdle

\* The steps of the threads that work for an identifier.
JobSteps(h, u) ==
    \/ StartRead(h, u)
    \/ huuid[h] = u /\ StartReset(h)
    \/ huuid[h] = u /\ StartSpawn(h)
    \/ \E r \in Runs : ruuid[r] = u /\ build_and_publish(r)

NextTwoJobs ==
    \/ JobSteps(1, JobX)
    \/ JobSteps(2, JobY)

\* The two jobs side by side.  Only the pipeline thread of JobY is required to
\* keep running; the threads of JobX may stop anywhere, for ever.
SpecTwoJobs ==
    /\ InitTwoJobs /\ [][NextTwoJobs]_vars
    /\ WF_vars(\E r \in Runs : ruuid[r] = JobY /\ build_and_publish(r))

\* ------------------------------------------------------------ HTTP requests
\* The character class [0-9a-fA-F-] and the characters str.strip() removes.
HexDigits ==
    {"0", "1", "2", "3", "4", "5", "6", "7", "8", "9",
     "a", "b", "c", "d", "e", "f", "A", "B", "C", "D", "E", "F"}
UuidClass == HexDigits \cup {"-"}
Whitespace == {" ", "\t", "\n", "\r"}

\* The {16,} of the pattern.
UuidMinLen == 16

RECURSIVE lstrip(_)
lstrip(s) == IF s # <<>> /\ Head(s) \in Whitespace THEN lstrip(Tail(s)) ELSE s

RECURSIVE rstrip(_)
rstrip(s) ==
    IF s # <<>> /\ s[Len(s)] \in Whitespace THEN rstrip(SubSeq(s, 1, Len(s) - 1)) ELSE s

\* str.strip()
strip(s) == rstrip(lstrip(s))

\* The pattern matched from the start of s, character by character, n characters
\* of the class matched so far: the end of s must be reached.
RECURSIVE match_from(_, _)
match_from(s, n) ==
    IF s = <<>> THEN n >= UuidMinLen
    ELSE Head(s) \in UuidClass /\ match_from(Tail(s), n + 1)

\* re.fullmatch as it would be if the pattern were matched at the start of the
\* string only (re.match).
re_match_prefix(s) ==
    Len(s) >= UuidMinLen /\ \A i \in 1..UuidMinLen : s[i] \in UuidClass

\* re.fullmatch(r"[0-9a-fA-F-]{16,}", s)
re_fullmatch(s) == match_from(s, 0)

\* uuid = (request.args.get("uuid") or "").strip()
uuid_of(arg) == strip(IF arg.given THEN arg.value ELSE <<>>)

\* The characters as one string (the key of STATUS).
RECURSIVE Join(_)
Join(s) == IF s = <<>> THEN "" ELSE Head(s) \o Join(Tail(s))

\* `if not uuid or not re.fullmatch(...)`: abort(400, ...)
start_rejects(arg) == LET uuid == uuid_of(arg) IN uuid = <<>> \/ ~re_fullmatch(uuid)

\* The arguments requests are made with: no parameter; strings of 0, 15, 16 and
\* 17 characters of the class; the identifier of Uuids; every character kind of
\* the class; a character outside the class at the start, in the middle or at
\* the end; each of them bare and with white space around it.
RECURSIVE Rep(_, _)
Rep(c, n) == IF n = 0 THEN <<>> ELSE Append(Rep(c, n - 1), c)

UuidChars ==
    <<"a", "a", "a", "a", "-", "0", "0", "0", "0", "-",
      "0", "0", "0", "0", "-", "0", "0", "0", "1">>
MixedChars ==
    <<"0", "1", "2", "3", "4", "5", "6", "7", "8", "9", "a", "b", "c", "d", "e",
      "f", "A", "B", "C", "D", "E", "F", "-">>
BadChars == {"g", "/", ".", " "}
Bodies ==
    {Rep("a", n) : n \in {0, UuidMinLen - 1, UuidMinLen, UuidMinLen + 1}}
    \cup {UuidChars, MixedChars}
    \cup {Rep("a", UuidMinLen) \o <<b>> : b \in BadChars}
    \cup {<<b>> \o Rep("a", UuidMinLen) : b \in BadChars}
    \cup {Rep("a", 8) \o <<b>> \o Rep("a", 8) : b \in BadChars}
Padded(body) ==
    {body, <<" ">> \o body, body \o <<"\n">>, <<" ">> \o body \o <<"\n">>}
StartArgs == {Missing} \cup {Given(p) : p \in UNION {Padded(b) : b \in Bodies}}
StatusArgs ==
    {Missing, Given(<<>>), Given(<<" ">>), Given(UuidChars),
     Given(<<" ">> \o UuidChars \o <<"\n">>), Given(Rep("a", UuidMinLen)),
     Given(<<"x">>)}

\* The responses.
Page(arg) ==
    [route |-> "start", arg |-> arg, code |-> 200, body |-> "WAITING_ROOM_HTML"]
Abort(route, arg, message) ==
    [route |-> route, arg |-> arg, code |-> 400, body |-> message]

\* start: the validation, then s = get_status(uuid) and the test on s.  A request
\* that is rejected ends here with 400; one that needs no build returns the
\* waiting-room page.
HttpStart(h, arg) ==
    IF start_rejects(arg)
    THEN /\ hpc[h] = "idle"
         /\ qresp' = Abort("start", arg, "Missing/invalid uuid")
         /\ UNCHANGED <<pvars, svars, uvars, xvars>>
    ELSE LET uuid == Join(uuid_of(arg)) IN
         /\ uuid \in Uuids
         /\ StartReadStep(h, uuid)
         /\ IF start_needed(get_status(uuid))
            THEN UNCHANGED qresp
            ELSE qresp' = Page(Given(uuid_of(arg)))
         /\ UNCHANGED <<uvars, xvars>>

\* start: the thread is started and the waiting-room page is returned.
HttpStartSpawn(h) ==
    /\ StartSpawnStep(h)
    /\ qresp' = Page(Given(CHOOSE c \in {uuid_of(a) : a \in StartArgs} :
                             Join(c) = huuid[h]))
    /\ UNCHANGED <<uvars, xvars>>

\* STATUS.get(uuid, {}) for any key.
status_get(key) == IF key \in DOMAIN STATUS THEN get_status(key) ELSE EmptyDict

\* The record /status would answer with if it sent an empty record as it is.
status_record_raw(s) == s

\* `if not s: s = {"stage": "queued", "step": 0, "total": ..., "done": False}`
status_record(s) ==
    IF s = EmptyDict
    THEN [stage |-> "queued", step |-> 0, total |-> (Len(SCENARIOS) * 3) + 4,
          done |-> FALSE]
    ELSE s

\* status: jsonify(s), or 400 without an identifier.  A request is served by a
\* thread of its own, at any time.
HttpStatus(arg) ==
    /\ qresp' = IF uuid_of(arg) = <<>>
                THEN Abort("status", arg, [error |-> "Missing uuid"])
                ELSE [route |-> "status", arg |-> arg, code |-> 200,
                      body |-> status_record(status_get(Join(uuid_of(arg))))]
    /\ UNCHANGED <<pvars, svars, uvars, xvars>>

\* redirect_location as it would be if the identifier were not passed on.
redirect_location_bare(uuid) == "/start"

\* f"/start?uuid={uuid}"
redirect_location(uuid) == "/start?uuid=" \o uuid

\* generate_legacy: redirect(f"/start?uuid={uuid}", code=302), or 400 without an
\* identifier.
HttpGenerate(arg) ==
    /\ qresp' = IF uuid_of(arg) = <<>>
                THEN Abort("generate", arg, "Missing uuid")
                ELSE [route |-> "generate", arg |-> arg, code |-> 302,
                      body |-> redirect_location(Join(uuid_of(arg)))]
    /\ UNCHANGED <<pvars, svars, uvars, xvars>>

\* The requests of one client after another, with their responses: /start
\* requests do not overlap; /status and /generate are served at any time.
NextHttp ==
    \/ \E arg \in StartArgs : HttpStart(1, arg)
    \/ StartReset(1)
    \/ HttpStartSpawn(1)
    \/ \E r \in Runs : build_and_publish(r)
    \/ \E arg \in StatusArgs : HttpStatus(arg)
    \/ \E arg \in StatusArgs : HttpGenerate(arg)

SpecHttp == Init /\ [][NextHttp]_vars

\* ------------------------------------------- upload_file, request by request
\* What a path of the branch can hold: nothing, what an earlier process
\* published, what this process uploads, what somebody else writes.
External == {"ext1", "ext2"}
Contents == {NoFile, "old", "ours"} \cup External

\* The version token (the blob sha) of what a path holds.
TokenOf(c) == IF c = NoFile THEN None ELSE "sha_" \o c

\* The answers to gh_get(path): 200 with the sha of the file, or with a body
\* that has no usable sha, when the path is there; 404 when it is not; another
\* status, or no answer at all (requests raises), at any time.
GetAnswers(p) ==
    (IF files[p] # NoFile
     THEN {[status |-> "200", sha |-> TokenOf(files[p])],
           [status |-> "200", sha |-> None],
           [status |-> "200", sha |-> ""]}
     ELSE {[status |-> "404", sha |-> None]})
    \cup {[status |-> "403", sha |-> None], [status |-> "raise", sha |-> None]}

\* if r.status_code == 200: sha = r.json().get("sha") (None if that fails)
read_sha(ans) == IF ans.status = "200" THEN ans.sha ELSE None

\* gh_put as it would be if no sha were ever put into the payload.
sha_never_attached(sha) == None

\* gh_put: `if sha: payload["sha"] = sha`
sha_attached(sha) == IF sha \notin {None, ""} THEN sha ELSE None

\* The content store as it would be if it took any write.
store_accepts_any(p, sha) == TRUE

\* The content store takes a write to a path only with the token of what the
\* path holds now: none for a path that is not there.
store_accepts(p, sha) == sha = TokenOf(files[p])

\* The answers to the PUT: created or updated when the store takes the write, a
\* conflict when it does not; another status, or no answer, at any time.
PutAnswers(p, sha) ==
    (IF store_accepts(p, sha)
     THEN {IF files[p] = NoFile THEN "201" ELSE "200"}
     ELSE {"409"})
    \cup {"403", "raise"}

\* The path and the scenario of the upload_file call run r is in.
UploadPath(r) == IF rpc[r] = "upload" THEN PdfPath(SCENARIOS[rs[r]]) ELSE IndexPath
UploadScenario(r) == IF rpc[r] = "upload" THEN SCENARIOS[rs[r]] ELSE 0
InUpload(r) == rpc[r] \in {"upload", "upload_index"}

\* upload_file: sha = None; r = gh_get(path_in_repo); sha from the answer.
UploadGet(r) ==
    /\ InUpload(r)
    /\ uphase[r] = "get"
    /\ \E ans \in GetAnswers(UploadPath(r)) :
         /\ ulog' = [ulog EXCEPT ![r] =
                       <<[req |-> "GET", path |-> UploadPath(r), sha |-> ans.sha,
                          status |-> ans.status]>>]
         /\ IF ans.status = "raise"
            THEN /\ Call(r, rpc[r], UploadScenario(r), "raise")
                 /\ Raise(r, "except_exception")
                 /\ UNCHANGED <<usha, uphase>>
            ELSE /\ usha' = [usha EXCEPT ![r] = read_sha(ans)]
                 /\ uphase' = [uphase EXCEPT ![r] = "put"]
                 /\ UNCHANGED <<rpc, rws, calls>>
    /\ UNCHANGED <<STATUS, remote, published, track, svars, qresp, xvars, files, edits,
                   hvars, ruuid, rstep, rs, rlate>>

\* upload_file: gh_put(path_in_repo, f.read(), commit_msg, sha=sha); then the
\* next upload, or the end of the `with` block after index.html.
UploadPut(r) ==
    /\ InUpload(r)
    /\ uphase[r] = "put"
    /\ \E status \in PutAnswers(UploadPath(r), sha_attached(usha[r])) :
         LET res == gh_put(status) IN
         /\ ulog' = [ulog EXCEPT ![r] =
                       Append(@, [req |-> "PUT", path |-> UploadPath(r),
                                  sha |-> sha_attached(usha[r]), status |-> status])]
         /\ Call(r, rpc[r], UploadScenario(r), res)
         /\ IF res = "ok"
            THEN /\ files' = [files EXCEPT ![UploadPath(r)] = "ours"]
                 /\ remote' = [remote EXCEPT ![ruuid[r]] = TRUE]
                 /\ IF rpc[r] = "upload"
                    THEN /\ IF rs[r] < Len(SCENARIOS)
                            THEN /\ rpc' = [rpc EXCEPT ![r] = "upload_label"]
                                 /\ rs' = [rs EXCEPT ![r] = @ + 1]
                            ELSE /\ rpc' = [rpc EXCEPT ![r] = "upload_index_label"]
                                 /\ rs' = [rs EXCEPT ![r] = 0]
                         /\ UNCHANGED rws
                    ELSE /\ rpc' = [rpc EXCEPT ![r] = "trigger"]
                         /\ rws' = [rws EXCEPT ![r] = NoDir]
                         /\ UNCHANGED rs
            ELSE Raise(r, "except_exception") /\ UNCHANGED <<files, remote, rs>>
    /\ usha' = [usha EXCEPT ![r] = None]
    /\ uphase' = [uphase EXCEPT ![r] = "get"]
    /\ UNCHANGED <<STATUS, published, track, svars, qresp, xvars, edits, hvars, ruuid,
                   rstep, rlate>>

\* Somebody else changes or creates the path a run is uploading, before the read
\* of the run, or between its read and its write.
ExternalWrite ==
    /\ edits < MaxEdits
    /\ \E r \in Runs, c \in External :
         /\ InUpload(r)
         /\ c # files[UploadPath(r)]
         /\ files' = [files EXCEPT ![UploadPath(r)] = c]
         /\ remote' = [remote EXCEPT ![ruuid[r]] = TRUE]
    /\ edits' = edits + 1
    /\ UNCHANGED <<STATUS, published, track, svars, qresp, xvars, usha, uphase, ulog,
                   hvars, rlocals>>

\* The steps of a run other than its uploads.
BuildSteps(r) ==
    \/ RunStarting(r)
    \/ RunCheck(r)
    \/ RunAlready(r)
    \/ RunAlreadyDone(r)
    \/ RunGenerate(r)
    \/ RunCompile(r)
    \/ RunWriteIndex(r)
    \/ RunUploadLabel(r)
    \/ RunUploadIndexLabel(r)
    \/ RunTrigger(r)
    \/ RunBuilding(r)
    \/ RunBuildFailed(r)
    \/ RunPropagating(r)
    \/ RunDone(r)
    \/ RunExceptCalledProcess(r)
    \/ RunExceptException(r)

NextUpload ==
    \/ start(1)
    \/ \E r \in Runs : BuildSteps(r)
    \/ \E r \in Runs : UploadGet(r)
    \/ \E r \in Runs : UploadPut(r)
    \/ ExternalWrite

\* A fresh process; the branch holds nothing for the identifier, or what an
\* earlier process published: all its files, or the first of them only.
InitBranch ==
    /\ InitState /\ track = FALSE /\ InitStore /\ InitQuiet
    /\ qresp = NoResponse
    /\ files \in {[p \in Paths |-> NoFile], [p \in Paths |-> "old"],
                  [p \in Paths |-> IF p = PdfPath(SCENARIOS[1]) THEN "old" ELSE NoFile]}
    /\ \A u \in Uuids : remote[u] <=> (\E p \in Paths : files[p] # NoFile)
    /\ usha = [r \in Runs |-> None]
    /\ uphase = [r \in Runs |-> "get"]
    /\ ulog = [r \in Runs |-> <<>>]
    /\ edits = 0

\* One request after another, with upload_file as its two requests to a content
\* store that others write to as well.
SpecUpload == InitBranch /\ [][NextUpload]_vars

\* ------------------------------------- set_status / get_status, by reference
\* The arguments the threads of SpecStore call set_status with, and what a caller
\* writes into a dict that get_status returned to it.
FieldChoices ==
    {[stage |-> "queued", done |-> FALSE, error |-> None],
     [stage |-> "generate_s1"],
     [done |-> TRUE, error |-> "Server error", pages_url |-> None]}
CallerFields == [stage |-> "caller"]

\* `with STATUS_LOCK` as it would be if the lock were not taken.
lock_not_taken == TRUE

\* `with STATUS_LOCK` can be entered: the lock is free.
lock_free == STATUS_LOCK = NoThread

\* The stored record of an identifier: the dict its reference refers to (no
\* record: the empty set).
Stored(u) == IF u \in DOMAIN table THEN {heap[table[u]]} ELSE {}
StoredAll == [u \in StoreUuids |-> Stored(u)]

\* A new dict object: the first reference that refers to nothing.
NewObj == CHOOSE o \in ObjIds \ DOMAIN heap : \A q \in ObjIds \ DOMAIN heap : o <= q

\* The objects that stay alive: those STATUS or a thread refers to.
Collect(h, tb, locs, rets) ==
    LET live == {tb[u] : u \in DOMAIN tb} \cup {locs[t] : t \in Threads}
                \cup {rets[t] : t \in Threads} IN
    [o \in DOMAIN h \cap live |-> h[o]]

\* dict(d) as it would be if get_status returned the stored dict itself.
dict_alias(o) == [heap |-> heap, ref |-> o]

\* dict(d): a new dict object with the keys and values of d.
dict_copy(o) == [heap |-> (NewObj :> heap[o]) @@ heap, ref |-> NewObj]

\* set_status, entering `with STATUS_LOCK`.
SetStatusEnter(t, u, fields) ==
    /\ tpc[t] = "idle"
    /\ lock_free
    /\ STATUS_LOCK' = t
    /\ targ' = [targ EXCEPT ![t] = [uuid |-> u, fields |-> fields]]
    /\ tpre' = [tpre EXCEPT ![t] = StoredAll]
    /\ tpc' = [tpc EXCEPT ![t] = "set_get"]
    /\ UNCHANGED <<heap, table, tloc, tkeys, tret, committed, pvars, evars>>

\* s = STATUS.get(uuid, {}): the stored dict itself, or a new empty dict.
SetStatusGet(t) ==
    /\ tpc[t] = "set_get"
    /\ IF targ[t].uuid \in DOMAIN table
       THEN /\ tloc' = [tloc EXCEPT ![t] = table[targ[t].uuid]]
            /\ UNCHANGED heap
       ELSE /\ tloc' = [tloc EXCEPT ![t] = NewObj]
            /\ heap' = (NewObj :> EmptyDict) @@ heap
    /\ tkeys' = [tkeys EXCEPT ![t] = DOMAIN targ[t].fields]
    /\ tpc' = [tpc EXCEPT ![t] = "set_update"]
    /\ UNCHANGED <<table, STATUS_LOCK, targ, tret, tpre, committed, pvars, evars>>

\* s.update(fields): the keys are written into the dict s refers to, one at a
\* time, in any order.
SetStatusUpdate(t) ==
    /\ tpc[t] = "set_update"
    /\ tkeys[t] # {}
    /\ \E k \in tkeys[t] :
         /\ heap' = [heap EXCEPT ![tloc[t]] = (k :> targ[t].fields[k]) @@ @]
         /\ tkeys' = [tkeys EXCEPT ![t] = @ \ {k}]
    /\ UNCHANGED <<table, STATUS_LOCK, tpc, targ, tloc, tret, tpre, committed, pvars, evars>>

\* SetStatusStore as it would be if the lock were still held when set_status
\* returns.
SetStatusStore_keeps_lock(t) ==
    /\ tpc[t] = "set_update"
    /\ tkeys[t] = {}
    /\ table' = (targ[t].uuid :> tloc[t]) @@ table
    /\ committed' = [u \in StoreUuids |->
                       IF u \in DOMAIN table' THEN {heap[table'[u]]} ELSE {}]
    /\ tloc' = [tloc EXCEPT ![t] = NoObj]
    /\ targ' = [targ EXCEPT ![t] = NoCall]
    /\ tpre' = [tpre EXCEPT ![t] = [u \in StoreUuids |-> {}]]
    /\ tpc' = [tpc EXCEPT ![t] = "idle"]
    /\ UNCHANGED <<heap, STATUS_LOCK, tkeys, tret, pvars, evars>>

\* STATUS[uuid] = s, and the `with` block is left.
SetStatusStore(t) ==
    /\ tpc[t] = "set_update"
    /\ tkeys[t] = {}
    /\ table' = (targ[t].uuid :> tloc[t]) @@ table
    /\ IF STATUS_LOCK = t THEN STATUS_LOCK' = NoThread ELSE UNCHANGED STATUS_LOCK
    /\ committed' = [u \in StoreUuids |->
                       IF u \in DOMAIN table' THEN {heap[table'[u]]} ELSE {}]
    /\ tloc' = [tloc EXCEPT ![t] = NoObj]
    /\ targ' = [targ EXCEPT ![t] = NoCall]
    /\ tpre' = [tpre EXCEPT ![t] = [u \in StoreUuids |-> {}]]
    /\ tpc' = [tpc EXCEPT ![t] = "idle"]
    /\ UNCHANGED <<heap, tkeys, tret, pvars, evars>>

\* get_status, entering `with STATUS_LOCK`.
GetStatusEnter(t, u) ==
    /\ tpc[t] = "idle"
    /\ lock_free
    /\ STATUS_LOCK' = t
    /\ targ' = [targ EXCEPT ![t] = [uuid |-> u, fields |-> EmptyDict]]
    /\ tpc' = [tpc EXCEPT ![t] = "get_copy"]
    /\ UNCHANGED <<heap, table, tloc, tkeys, tret, tpre, committed, pvars, evars>>

\* return dict(STATUS.get(uuid, {})), and the `with` block is left.
GetStatusReturn(t) ==
    /\ tpc[t] = "get_copy"
    /\ IF targ[t].uuid \in DOMAIN table
       THEN LET c == dict_copy(table[targ[t].uuid]) IN
            /\ heap' = c.heap
            /\ tret' = [tret EXCEPT ![t] = c.ref]
       ELSE /\ heap' = (NewObj :> EmptyDict) @@ heap
            /\ tret' = [tret EXCEPT ![t] = NewObj]
    /\ IF STATUS_LOCK = t THEN STATUS_LOCK' = NoThread ELSE UNCHANGED STATUS_LOCK
    /\ tpc' = [tpc EXCEPT ![t] = "returned"]
    /\ UNCHANGED <<table, targ, tloc, tkeys, tpre, committed, pvars, evars>>

\* The caller writes into the dict it was given.
CallerMutate(t) ==
    /\ tpc[t] = "returned"
    /\ heap' = [heap EXCEPT ![tret[t]] = CallerFields @@ @]
    /\ tpc' = [tpc EXCEPT ![t] = "mutated"]
    /\ UNCHANGED <<table, STATUS_LOCK, targ, tloc, tkeys, tret, tpre, committed, pvars, evars>>

\* The caller lets go of the dict it was given.
CallerDrop(t) ==
    /\ tpc[t] \in {"returned", "mutated"}
    /\ tret' = [tret EXCEPT ![t] = NoObj]
    /\ heap' = Collect(heap, table, tloc, tret')
    /\ targ' = [targ EXCEPT ![t] = NoCall]
    /\ tpc' = [tpc EXCEPT ![t] = "idle"]
    /\ UNCHANGED <<table, STATUS_LOCK, tloc, tkeys, tpre, committed, pvars, evars>>

NextStore ==
    \E t \in Threads :
        \/ \E u \in StoreUuids, fields \in FieldChoices : SetStatusEnter(t, u, fields)
        \/ SetStatusGet(t)
        \/ SetStatusUpdate(t)
        \/ SetStatusStore(t)
        \/ \E u \in StoreUuids : GetStatusEnter(t, u)
        \/ GetStatusReturn(t)
        \/ CallerMutate(t)
        \/ CallerDrop(t)

\* Threads calling set_status and get_status, in any interleaving, in a fresh
\* process (no request, nothing on the branch).
InitNoFolder ==
    /\ InitState /\ track = FALSE /\ InitStore /\ InitIdle
    /\ \A u \in Uuids : ~remote[u]

SpecStore == InitNoFolder /\ [][NextStore]_vars

\* ------------------------------------ the lock and the blocking operations
\* A pipeline thread is inside an operation that can block (a generator or
\* latexmk subprocess, an upload, the trigger, a readiness wait): the run calls
\* them between two set_status calls, never inside one.
BlockingCall(t) ==
    /\ tpc[t] = "idle"
    /\ tpc' = [tpc EXCEPT ![t] = "blocked"]
    /\ UNCHANGED <<heap, table, STATUS_LOCK, targ, tloc, tkeys, tret, tpre, committed, pvars, evars>>

\* The operation returns (or raises); it may also never do so.
BlockingReturn(t) ==
    /\ tpc[t] = "blocked"
    /\ tpc' = [tpc EXCEPT ![t] = "idle"]
    /\ UNCHANGED <<heap, table, STATUS_LOCK, targ, tloc, tkeys, tret, tpre, committed, pvars, evars>>

\* The steps of a thread inside `with STATUS_LOCK`: dict operations only.
InsideLock(t) ==
    \/ SetStatusGet(t)
    \/ SetStatusUpdate(t)
    \/ SetStatusStore(t)
    \/ GetStatusReturn(t)

\* A request handler (thread 2) begins an access of the store: the get_status of
\* /status or /start, or the set_status of /start.
RequestEnter ==
    \E u \in Uuids :
        \/ GetStatusEnter(2, u)
        \/ SetStatusEnter(2, u, [stage |-> "queued", done |-> FALSE, error |-> None])

\* Thread 1 is a pipeline run: set_status calls with blocking operations between
\* them.  Thread 2 serves requests.
NextLock ==
    \/ \E u \in Uuids, fields \in FieldChoices : SetStatusEnter(1, u, fields)
    \/ BlockingCall(1)
    \/ BlockingReturn(1)
    \/ \E t \in Threads : InsideLock(t)
    \/ RequestEnter
    \/ CallerDrop(2)

\* A thread inside `with STATUS_LOCK` runs on to the end of the block, and the
\* handler thread serves request after request.  Nothing makes a blocking
\* operation return.
SpecLock ==
    /\ InitNoFolder /\ [][NextLock]_vars
    /\ \A t \in Threads : WF_vars(InsideLock(t))
    /\ WF_vars(RequestEnter)
    /\ WF_vars(CallerDrop(2))

\* --------------------------------------------------------- readiness waits
\* wait_for_pages_build and wait_for_url_200 iteration by iteration: the test
\* of the deadline, the query, the sleep.  Time is in whole seconds.
PAGES_BUILD_TIMEOUT_S == 180
PAGES_PROPAGATE_TIMEOUT == 90

\* poll_every=3, the default of both waits, which no caller overrides.
poll_every == 3

WaitKinds == {"build", "url"}

\* max_seconds, the default of each wait.
max_seconds(kind) ==
    IF kind = "build" THEN PAGES_BUILD_TIMEOUT_S ELSE PAGES_PROPAGATE_TIMEOUT

\* What a query gives: info.get("status") of the latest build (None when the
\* answer holds no status), the status code of the HEAD request, or "raise".
QueryAnswers(kind) ==
    IF kind = "build" THEN BuildReplies \cup {None} ELSE UrlReplies

\* How long a query takes, and how long time.sleep(poll_every) suspends the
\* thread: at least poll_every.
QueryTimes == 0..MaxQuerySeconds
SleepTimes == {poll_every, poll_every + 1}

\* The statuses that end wait_for_pages_build, and the status code that ends
\* wait_for_url_200.
TerminalStatuses == {"built", "errored"}

\* `return last_status or "unknown"` and `return False`.
give_up(kind, last_status) ==
    IF kind = "build"
    THEN (IF last_status = None THEN "unknown" ELSE last_status)
    ELSE "False"

\* after_raise as it would be without the try / except around the query.
after_raise_propagates == "raised"

\* `except Exception: pass`: the loop goes on with the sleep.
after_raise == "sleep"

\* deadline = time.time() + max_seconds; last_status = None
WaitCall(kind) ==
    /\ wpc = "idle"
    /\ wpc' = "loop"
    /\ wkind' = kind
    /\ wnow' = 0
    /\ wdeadline' = max_seconds(kind)
    /\ wlast' = None /\ wret' = None /\ wans' = "" /\ wseen' = {}
    /\ UNCHANGED <<pvars, svars, qresp, uvars, ppc, gvars>>

\* while time.time() < deadline: ... ; after the loop, the give-up value.
WaitLoop ==
    /\ wpc = "loop"
    /\ IF wnow < wdeadline
       THEN wpc' = "query" /\ wret' = wret
       ELSE wpc' = "returned" /\ wret' = give_up(wkind, wlast)
    /\ UNCHANGED <<wkind, wnow, wdeadline, wlast, wans, wseen>>
    /\ UNCHANGED <<pvars, svars, qresp, uvars, ppc, gvars>>

\* The body of the try: the query, and the return inside the loop.
WaitQuery ==
    /\ wpc = "query"
    /\ \E a \in QueryAnswers(wkind), d \in QueryTimes :
         /\ wnow' = wnow + d
         /\ wans' = a
         /\ wseen' = wseen \cup {a}
         /\ IF a = "raise"
            THEN wpc' = after_raise /\ UNCHANGED <<wlast, wret>>
            ELSE IF wkind = "build"
            THEN /\ wlast' = a
                 /\ IF a \in TerminalStatuses
                    THEN wpc' = "returned" /\ wret' = a
                    ELSE wpc' = "sleep" /\ wret' = wret
            ELSE /\ wlast' = wlast
                 /\ IF a = "200"
                    THEN wpc' = "returned" /\ wret' = "True"
                    ELSE wpc' = "sleep" /\ wret' = wret
    /\ UNCHANGED <<wkind, wdeadline>>
    /\ UNCHANGED <<pvars, svars, qresp, uvars, ppc, gvars>>

\* time.sleep(poll_every)
WaitSleep ==
    /\ wpc = "sleep"
    /\ \E d \in SleepTimes : wnow' = wnow + d
    /\ wpc' = "loop"
    /\ UNCHANGED <<wkind, wdeadline, wlast, wret, wans, wseen>>
    /\ UNCHANGED <<pvars, svars, qresp, uvars, ppc, gvars>>

\* The caller has the result (or the exception).
WaitEnd ==
    /\ wpc \in {"returned", "raised"}
    /\ wpc' = "idle"
    /\ UNCHANGED <<wkind, wnow, wdeadline, wlast, wret, wans, wseen>>
    /\ UNCHANGED <<pvars, svars, qresp, uvars, ppc, gvars>>

WaitStep == WaitLoop \/ WaitQuery \/ WaitSleep

NextWait ==
    \/ \E kind \in WaitKinds : WaitCall(kind)
    \/ WaitLoop
    \/ WaitQuery
    \/ WaitSleep
    \/ WaitEnd

\* The thread of the wait keeps running; every query answers or raises within
\* MaxQuerySeconds.
SpecWait == Init /\ [][NextWait]_vars /\ WF_vars(WaitStep)

\* ------------------------------------------------------ waiting-room page
\* The script of WAITING_ROOM_HTML: tick() fetches /status for the identifier of
\* the page, and either stops or schedules the next tick.
\* `if(s.error)`: the key is there and holds neither null nor "".
ErrorTruthy(s) == "error" \in DOMAIN s /\ s.error # None /\ s.error # ""

\* tick_outcome as it would be without the `if(s.error)` branch.
tick_outcome_no_error_branch(s) ==
    IF DoneTruthy(s) /\ UrlTruthy(s) THEN "redirect" ELSE "polling"

\* What tick() does with the record s it received: it shows the error and
\* returns, or it schedules the redirect and returns, or it falls through to
\* setTimeout(tick, ...).
tick_outcome(s) ==
    IF ErrorTruthy(s) THEN "error"
    ELSE IF DoneTruthy(s) /\ UrlTruthy(s) THEN "redirect"
    ELSE "polling"

\* What /status answers the page with.
PollResponse(u) == status_record(status_get(u))

\* One tick of the page of identifier u.  fetch or r.json() can throw, which the
\* catch ignores.
PollTick(u) ==
    /\ ppc = "polling"
    /\ \E fetched \in BOOLEAN :
         ppc' = IF fetched THEN tick_outcome(PollResponse(u)) ELSE "polling"
    /\ UNCHANGED <<pvars, svars, qresp, uvars, wvars, gvars>>

\* The user loads the page again.
PollReload ==
    /\ ppc # "polling"
    /\ ppc' = "polling"
    /\ UNCHANGED <<pvars, svars, qresp, uvars, wvars, gvars>>

\* The requests and runs of Spec, with the page polling at any time.
NextPoll ==
    \/ \E h \in Handlers : start(h)
    \/ \E r \in Runs : build_and_publish(r)
    \/ \E u \in Uuids : PollTick(u)
    \/ PollReload

SpecPoll == Init /\ [][NextPoll]_vars

\* ------------------------------------------------------ scenario generators
\* generate_s<k>_handout.py --uuid <text>: generate(text), then render_latex.
\* SHA-256 is a fold over the characters with DigestBits bits of state, the
\* random.Random of an invocation a linear congruential generator over SeedBits
\* bits; the parameters are the first draws of each generator, a float in units
\* of its last decimal.
GenChars == <<"a", "b", "_", " ">>
CharCode(c) == CHOOSE k \in 1..Len(GenChars) : GenChars[k] = c

\* hashlib.sha256(...) of a sequence of numbers (the bytes).
RECURSIVE sha256_from(_, _)
sha256_from(h, bytes) ==
    IF bytes = <<>> THEN h
    ELSE sha256_from(((h * 31) + Head(bytes)) % (2 ^ DigestBits), Tail(bytes))
sha256(bytes) == sha256_from(7, bytes)

\* seed_text.encode("utf-8")
encode(text) == [k \in 1..Len(text) |-> CharCode(text[k])]

\* make_rng as it would be with random.Random() seeded from the clock.
make_rng_from_clock(seed_text) == gtime % (2 ^ SeedBits)

\* make_rng: the seed is the leading digits of the digest of the text.
make_rng(seed_text) == sha256(encode(seed_text)) \div (2 ^ (DigestBits - SeedBits))

\* One step of the generator state.
rng_next(state) == ((state * 5) + 3) % (2 ^ SeedBits)

\* seeded_int / seeded_uniform / bounded_prob on the state the draw leaves.
seeded(state, range) == range[1] + (state % (range[2] - range[1] + 1))

\* The first draws of generate, by scenario: seeded_int(rng, lo, hi), or
\* seeded_uniform(rng, lo, hi, decimals) in units of the last decimal.
GenDraws(scen) ==
    CASE scen = 1 -> << <<900, 1400>>, <<80, 220>> >>
      [] scen = 2 -> << <<2, 3>>, <<4200, 5600>> >>
      [] scen = 3 -> << <<1500, 2800>>, <<120, 350>> >>
      [] scen = 4 -> << <<2, 3>>, <<80000, 150000>> >>
      [] OTHER -> << <<90, 140>>, <<65, 78>> >>

\* checksum = sha256(json.dumps(tmp, sort_keys=True))[:12] over the identifier
\* and the parameters.
checksum(uuid_text, params) == sha256(encode(uuid_text) \o params)

\* tex_escape: "_" becomes "\_", whose backslash the last replace turns into
\* \textbackslash{}; the other characters of GenChars are kept.
tex_escape(text) ==
    [k \in 1..Len(text) |->
        IF text[k] = "_" THEN "\\textbackslash{}_" ELSE text[k]]

\* render_latex(p): the fixed text with p.uuid, p.checksum and the parameters.
render_latex(uuid_text, sum, params) ==
    <<"\\documentclass", Join(tex_escape(uuid_text)), sum, params, "\\end{document}">>

\* The texts passed as --uuid.
GenTexts == {<<"a", "b">>, <<"b", "a">>, <<" ", "a", "b">>, <<"a", "_">>}

\* main: generate(args.uuid) begins; uuid_text.strip(); rng = make_rng(uuid_text)
GenStart(i, text, scen) ==
    /\ gpc[i] = "idle"
    /\ gtime < MaxStarts
    /\ gtime' = gtime + 1
    /\ gstart' = [gstart EXCEPT ![i] = gtime']
    /\ guuid' = [guuid EXCEPT ![i] = text]
    /\ gscen' = [gscen EXCEPT ![i] = scen]
    /\ grng' = [grng EXCEPT ![i] = make_rng(strip(text))]
    /\ gparams' = [gparams EXCEPT ![i] = <<>>]
    /\ gsum' = [gsum EXCEPT ![i] = 0]
    /\ gtex' = [gtex EXCEPT ![i] = <<>>]
    /\ gpc' = [gpc EXCEPT ![i] = "draw"]
    /\ UNCHANGED <<pvars, svars, qresp, uvars, wvars, ppc>>

\* The next parameter is drawn from rng.
GenDraw(i) ==
    /\ gpc[i] = "draw"
    /\ LET k == Len(gparams[i]) + 1
           state == rng_next(grng[i]) IN
       /\ grng' = [grng EXCEPT ![i] = state]
       /\ gparams' = [gparams EXCEPT ![i] = Append(@, seeded(state, GenDraws(gscen[i])[k]))]
       /\ gpc' = [gpc EXCEPT ![i] = IF k = Len(GenDraws(gscen[i])) THEN "checksum"
                                     ELSE "draw"]
    /\ UNCHANGED <<guuid, gscen, gsum, gtex, gstart, gtime>>
    /\ UNCHANGED <<pvars, svars, qresp, uvars, wvars, ppc>>

\* The checksum of the parameters; generate returns.
GenChecksum(i) ==
    /\ gpc[i] = "checksum"
    /\ gsum' = [gsum EXCEPT ![i] = checksum(strip(guuid[i]), gparams[i])]
    /\ gpc' = [gpc EXCEPT ![i] = "render"]
    /\ UNCHANGED <<guuid, gscen, grng, gparams, gtex, gstart, gtime>>
    /\ UNCHANGED <<pvars, svars, qresp, uvars, wvars, ppc>>

\* tex = render_latex(params); print(tex)
GenRender(i) ==
    /\ gpc[i] = "render"
    /\ gtex' = [gtex EXCEPT ![i] = render_latex(strip(guuid[i]), gsum[i], gparams[i])]
    /\ gpc' = [gpc EXCEPT ![i] = "done"]
    /\ UNCHANGED <<guuid, gscen, grng, gparams, gsum, gstart, gtime>>
    /\ UNCHANGED <<pvars, svars, qresp, uvars, wvars, ppc>>

\* The process exits; what it printed stays.
GenExit(i) ==
    /\ gpc[i] = "done"
    /\ gpc' = [gpc EXCEPT ![i] = "idle"]
    /\ UNCHANGED <<guuid, gscen, grng, gparams, gsum, gtex, gstart, gtime>>
    /\ UNCHANGED <<pvars, svars, qresp, uvars, wvars, ppc>>

NextGen ==
    \/ \E i \in Invocations, text \in GenTexts, k \in 1..Len(SCENARIOS) :
         GenStart(i, text, SCENARIOS[k])
    \/ \E i \in Invocations : GenDraw(i)
    \/ \E i \in Invocations : GenChecksum(i)
    \/ \E i \in Invocations : GenRender(i)
    \/ \E i \in Invocations : GenExit(i)

SpecGen == Init /\ [][NextGen]_vars

\* ------------------------------------------------------------------ claims
\* The runs in flight for an identifier: started and not yet returned.
InFlight(u) == {r \in Runs : rpc[r] # "idle" /\ ruuid[r] = u}

\* Run r is at a set_status (every position of the run but the three calls that
\* only talk to the remote store), and the step taken is r's.
WritePcs ==
    {"begin", "already", "already_done", "generate", "compile", "write_index",
     "upload_label", "upload_index_label", "trigger", "building", "build_failed",
     "propagating", "done", "except_called_process", "except_exception"}
Writes(r) == rpc[r] \in WritePcs /\ rpc'[r] # rpc[r]

\* Run r returns in this step.
Returns(r) == rpc[r] # "idle" /\ rpc'[r] = "idle"

\* What the record's `step` was right after the previous set_status of run r: the
\* value that set_status wrote (0 before the first).
LastWritten(r) == IF rpc[r] = "already_done" THEN total_steps - 1 ELSE rstep[r]

\* C1: the step values a poller reads after each set_status of a run never
\* decrease, and none exceeds the record's total.
C1_MonotonicProgress ==
    [][\A r \in Runs :
          Writes(r) =>
              LET s == STATUS'[ruuid[r]] IN
              /\ Get(s, "step") >= LastWritten(r)
              /\ Get(s, "step") <= Get(s, "total")]_vars

\* C2: never two runs in flight for the same identifier.
C2_OneRunPerIdentifier == \A u \in Uuids : Cardinality(InFlight(u)) <= 1

\* C3: a record with done = true is changed only by the reset of a /start, and
\* only when it is terminal with an error.
C3_Terminality ==
    [][\A u \in Uuids :
          (DoneTruthy(STATUS[u]) /\ STATUS'[u] # STATUS[u]) =>
              /\ Get(STATUS[u], "error") # None
              /\ \E h \in Handlers :
                    hpc[h] = "reset" /\ huuid[h] = u /\ hpc'[h] = "spawn"]_vars

\* The operations the short-circuit path must not invoke.
BuildOps == {"generate", "compile", "write_index", "upload", "upload_index",
             "trigger", "wait_build", "wait_url"}
Invoked(r) == {calls[r][i].op : i \in 1..Len(calls[r])}

\* C4: a run whose existence query answered true invokes nothing else, creates
\* no workspace and ends with done = true, error = null and the identifier's URL.
C4_ShortCircuit ==
    [][\A r \in Runs :
          (rpc[r] = "already_done" /\ Returns(r)) =>
              LET s == STATUS'[ruuid[r]] IN
              /\ Invoked(r) \cap BuildOps = {}
              /\ rws[r] = NoDir
              /\ DoneTruthy(s)
              /\ Get(s, "error") = None
              /\ Get(s, "pages_url") = pages_url_of(ruuid[r])]_vars

\* C5 as stated: when the short-circuit run terminates, the record's step is the
\* value the 'starting' publication wrote.
C5_StepUnchanged ==
    [][\A r \in Runs :
          (rpc[r] = "already_done" /\ Returns(r)) =>
              Get(STATUS'[ruuid[r]], "step") = starting_fields.step]_vars

\* C5 amended: the short-circuit run publishes stage 'already_published' with
\* step = total - 1, and its terminal write leaves step and stage as they are.
C5_StepOneBeforeTotal ==
    [][\A r \in Runs :
          /\ (rpc[r] = "already" /\ Writes(r)) =>
                /\ Get(STATUS'[ruuid[r]], "step") = Get(STATUS'[ruuid[r]], "total") - 1
                /\ Get(STATUS'[ruuid[r]], "step") # starting_fields.step
                /\ Get(STATUS'[ruuid[r]], "stage") = "already_published"
          /\ (rpc[r] = "already_done" /\ Returns(r)) =>
                /\ Get(STATUS'[ruuid[r]], "step") = Get(STATUS[ruuid[r]], "step")
                /\ Get(STATUS'[ruuid[r]], "stage") = Get(STATUS[ruuid[r]], "stage")
                /\ DoneTruthy(STATUS'[ruuid[r]])]_vars

\* A short-circuit run has terminated: the record is terminal at step total - 1.
C5_Witness ==
    \E u \in Uuids :
        /\ DoneTruthy(STATUS[u])
        /\ Get(STATUS[u], "stage") = "already_published"
        /\ Get(STATUS[u], "step") = total_steps - 1
        /\ InFlight(u) = {}

\* A record is terminal with an error.
Failed(s) == DoneTruthy(s) /\ Get(s, "error") # None

\* C6: /start starts a run iff the record it reads is absent or terminal with an
\* error (a request can read the record in any reachable state).
C6_DispatcherRule ==
    \A u \in Uuids :
        start_needed(get_status(u)) <=>
            (get_status(u) = EmptyDict \/ Failed(get_status(u)))

\* C7: for a record that is terminal with an error, /start decides to start and
\* its write leaves step = 0, done = false, error = null, stage = 'queued' and the
\* same total.
C7_ResetOnRetry ==
    \A u \in Uuids :
        Failed(get_status(u)) =>
            LET s == Update(get_status(u), queued_fields) IN
            /\ start_needed(get_status(u))
            /\ s.step = 0 /\ s.done = FALSE /\ s.error = None /\ s.stage = "queued"
            /\ s.total = get_status(u).total

\* C8: a run spawned by a /start that arrived after the identifier's record was a
\* permanent success performs no generation, compile or upload.
C8_PermanentSuccess ==
    \A r \in Runs :
        rlate[r] => Invoked(r) \cap {"generate", "compile", "upload", "upload_index"} = {}

\* The run found the folder absent and every call it made succeeded.
AllSucceeded(r) ==
    /\ calls[r] # <<>>
    /\ calls[r][1].op = "exists" /\ calls[r][1].res = "False"
    /\ \A i \in 2..Len(calls[r]) : calls[r][i].res \in {"ok", "built", "True", "False"}

\* The record of a successful full run.
DoneRecord(u) ==
    [stage |-> "done", step |-> 19, total |-> 19, done |-> TRUE, error |-> None,
     pages_url |-> pages_url_of(u)]

\* C9: a run that found the folder absent and whose calls all succeeded ends
\* with stage = 'done', step = total = 19, done = true, error = null and the URL.
C9_SuccessfulRun ==
    [][\A r \in Runs :
          (Returns(r) /\ AllSucceeded(r)) =>
              /\ rpc[r] = "done"
              /\ STATUS'[ruuid[r]] = DoneRecord(ruuid[r])
              /\ Get(STATUS'[ruuid[r]], "step") = total_steps]_vars

\* A full run has ended: every stage ran and the record is the success record.
C9_Witness ==
    \E u \in Uuids : STATUS[u] = DoneRecord(u) /\ remote[u] /\ InFlight(u) = {}

\* C10: a record whose error is not null has done = true.
C10_ErrorImpliesDone ==
    \A u \in Uuids : Get(STATUS[u], "error") # None => DoneTruthy(STATUS[u])

\* A failed record is in the store while a /start request is resetting it.
C10_Witness ==
    \E u \in Uuids :
        /\ Failed(STATUS[u])
        /\ \E h \in Handlers : hpc[h] = "reset" /\ huuid[h] = u

LastCall(r) == calls[r][Len(calls[r])]
Made(r, ops, res) ==
    \E i \in 1..Len(calls[r]) : calls[r][i].op \in ops /\ calls[r][i].res = res

\* Run r ends now, with the record terminal, without a URL and with this error.
EndsFailed(r, message) ==
    /\ Returns(r)
    /\ DoneTruthy(STATUS'[ruuid[r]])
    /\ Get(STATUS'[ruuid[r]], "error") = message
    /\ Get(STATUS'[ruuid[r]], "pages_url") = None

\* Run r takes a step.
Moves(r) == rpc'[r] # rpc[r] \/ calls'[r] # calls[r] \/ rs'[r] # rs[r]

\* C12: once the generator or the compiler has exited non-zero, that call is the
\* run's last, and the run's next step ends it with done = true, no URL and the
\* error 'Build error'.
C12_CollaboratorFailure ==
    [][\A r \in Runs :
          Made(r, {"generate", "compile"}, "nonzero") =>
              /\ LastCall(r).res = "nonzero"
              /\ rpc[r] = "except_called_process"
              /\ Moves(r) => EndsFailed(r, "Build error")]_vars

\* A collaborator has exited non-zero for the last artifact, after the others
\* were generated and compiled.
C12_Witness ==
    \E r \in Runs :
        /\ Made(r, {"compile"}, "nonzero")
        /\ LastCall(r).s = SCENARIOS[Len(SCENARIOS)]

\* C13: an upload answered with a status other than 200/201 and a trigger
\* answered with a status other than 200/201/204 raise; once an upload or the
\* trigger has raised, that call is the run's last, and the run's next step ends
\* it with done = true, no URL and the error 'Server error', which is not the
\* error of a collaborator failure.
C13_RemoteFailure ==
    [][/\ \A put \in PutReplies \ {"200", "201"} : upload_file("404", put) = "raise"
       /\ \A reply \in TriggerReplies \ {"200", "201", "204"} :
             trigger_pages_build(reply) = "raise"
       /\ \A r \in Runs :
             Made(r, {"upload", "upload_index", "trigger"}, "raise") =>
                 /\ LastCall(r).res = "raise"
                 /\ rpc[r] = "except_exception"
                 /\ Moves(r) => (EndsFailed(r, "Server error") /\ ~EndsFailed(r, "Build error"))]_vars

\* The build trigger was refused, after every upload was accepted.
C13_Witness ==
    \E r \in Runs : Made(r, {"trigger"}, "raise") /\ Made(r, {"upload_index"}, "ok")

\* C14: once the build wait has returned 'errored', the run has triggered one
\* build and waited once, makes no further call (no propagation wait), and its
\* next step ends it with done = true, an error and no URL; that write publishes
\* no stage (so not 'done').
C14_BuildErrored ==
    [][\A r \in Runs :
          Made(r, {"wait_build"}, "errored") =>
              /\ LastCall(r).op = "wait_build"
              /\ rpc[r] = "build_failed"
              /\ Cardinality({i \in 1..Len(calls[r]) :
                                 calls[r][i].op \in {"trigger", "wait_build"}}) = 2
              /\ Moves(r) =>
                    /\ EndsFailed(r, "GitHub Pages build failed")
                    /\ Get(STATUS'[ruuid[r]], "stage") = Get(STATUS[ruuid[r]], "stage")]_vars

\* The build wait of a run has returned 'errored'.
C14_Witness == \E r \in Runs : Made(r, {"wait_build"}, "errored")

\* The values wait_for_pages_build returns at its deadline when it has seen no
\* terminal build status.
GiveUpValues == {"unknown", "building"}

BuildNotErrored(r) ==
    \E i \in 1..Len(calls[r]) :
        calls[r][i].op = "wait_build" /\ calls[r][i].res # "errored"

\* C16: once the build wait has returned anything but 'errored', the run goes
\* through the propagation wait and ends with stage = 'done', done = true,
\* error = null and the URL, whatever wait_for_url_200 returned.
C16_PropagationBestEffort ==
    [][\A r \in Runs :
          BuildNotErrored(r) =>
              /\ rpc[r] \in {"propagating", "done"}
              /\ rpc[r] = "done" => LastCall(r).op = "wait_url"
              /\ Moves(r) /\ rpc[r] = "done" =>
                    /\ Returns(r)
                    /\ Get(STATUS'[ruuid[r]], "stage") = "done"
                    /\ DoneTruthy(STATUS'[ruuid[r]])
                    /\ Get(STATUS'[ruuid[r]], "error") = None
                    /\ Get(STATUS'[ruuid[r]], "pages_url") = pages_url_of(ruuid[r])]_vars

\* A propagation wait has timed out and its run is about to end.
C16_Witness ==
    \E r \in Runs : rpc[r] = "done" /\ Made(r, {"wait_url"}, "False")

\* C17: every exit of a run leaves done = true in its record, and every run in
\* flight ends (the calls it makes return; its thread keeps being scheduled).
C17_NoStuckJob ==
    /\ [][\A r \in Runs : Returns(r) => DoneTruthy(STATUS'[ruuid[r]])]_vars
    /\ \A r \in Runs : (rpc[r] # "idle") ~> (rpc[r] = "idle")

\* A run is in flight and its record is not terminal.
C17_Witness ==
    \E r \in Runs : rpc[r] = "compile" /\ ~DoneTruthy(STATUS[ruuid[r]])

\* C18: a run that ends has no temporary directory left (whichever stage failed,
\* or none); no two runs have the same directory; and the directory of a run
\* is made and removed by that run's own steps only.
C18_WorkspaceCleanup ==
    [][\A r \in Runs :
          /\ Returns(r) => rws[r] = NoDir
          /\ rpc[r] \in {"except_called_process", "except_exception", "build_failed",
                         "done", "already_done"} => rws[r] = NoDir
          /\ \A q \in Runs \ {r} : rws[r] # NoDir => rws[q] # rws[r]
          /\ rws'[r] # rws[r] => Moves(r)]_vars

\* Two runs of the same identifier have a temporary directory at the same time.
C18_Witness ==
    \E r, q \in Runs :
        r # q /\ ruuid[r] = ruuid[q] /\ rws[r] # NoDir /\ rws[q] # NoDir

\* ------------------------------------------------------- the status store
\* The one dict of a stored record ({} when there is no record).
TheDict(stored) == IF stored = {} THEN EmptyDict ELSE CHOOSE d \in stored : TRUE

\* Thread t leaves set_status / get_status in this step.
SetReturns(t) == tpc[t] = "set_update" /\ tpc'[t] = "idle"
GetReturns(t) == tpc[t] = "get_copy" /\ tpc'[t] = "returned"

\* C19: when set_status(uuid, fields) returns, the identifier has a record, made
\* of the named fields with the given values and of the other fields as they
\* were when the call began, and every other identifier's record is as it was;
\* and the dict a get_status returns is a record as some completed set_status
\* left it, never one with part of the named fields written.
C19_AtomicMerge ==
    [][\A t \in Threads :
          /\ SetReturns(t) =>
                LET u == targ[t].uuid
                    fields == targ[t].fields
                    old == TheDict(tpre[t][u])
                    new == TheDict(StoredAll'[u]) IN
                /\ StoredAll'[u] # {}
                /\ DOMAIN new = DOMAIN old \cup DOMAIN fields
                /\ \A k \in DOMAIN fields : new[k] = fields[k]
                /\ \A k \in DOMAIN old \ DOMAIN fields : new[k] = old[k]
                /\ \A v \in StoreUuids \ {u} : StoredAll'[v] = tpre[t][v]
          /\ GetReturns(t) =>
                heap'[tret'[t]] = TheDict(committed[targ[t].uuid])]_vars

\* A set_status on an existing record has written some of its fields and not
\* yet the others, while another thread is calling get_status.
C19_Witness ==
    \E t, q \in Threads :
        /\ tpc[t] = "set_update"
        /\ tkeys[t] # {} /\ tkeys[t] # DOMAIN targ[t].fields
        /\ tpre[t][targ[t].uuid] # {}
        /\ tpc[q] = "idle" /\ tret[q] = NoObj

\* C20: the dict get_status returns is not a stored dict; for an identifier with
\* no record it is empty; get_status leaves the store as it is (it creates no
\* record); a caller's write into its dict leaves the store as it is; and no
\* step of another thread changes a dict that was returned to a caller.
C20_GetReturnsCopy ==
    [][\A t \in Threads :
          /\ GetReturns(t) =>
                /\ tret'[t] \notin {table'[u] : u \in DOMAIN table'}
                /\ targ[t].uuid \notin DOMAIN table => heap'[tret'[t]] = EmptyDict
                /\ table' = table
                /\ StoredAll' = StoredAll
          /\ (tpc[t] = "returned" /\ tpc'[t] = "mutated") =>
                /\ heap'[tret[t]] # heap[tret[t]]
                /\ StoredAll' = StoredAll
          /\ (tret[t] # NoObj /\ tpc'[t] = tpc[t]) =>
                heap'[tret[t]] = heap[tret[t]]]_vars

\* A caller has written into the dict it was given for an existing record, and
\* another thread has since changed that record.
C20_Witness ==
    \E t \in Threads :
        /\ tpc[t] = "mutated"
        /\ Stored(targ[t].uuid) # {}
        /\ \E k \in DOMAIN heap[tret[t]] \ DOMAIN CallerFields :
              k \in DOMAIN TheDict(Stored(targ[t].uuid))
              /\ heap[tret[t]][k] # TheDict(Stored(targ[t].uuid))[k]

\* C21: STATUS_LOCK is never held by a thread that is inside a blocking pipeline
\* operation, and while the run stays blocked for ever the request handler goes
\* on completing its accesses of the store (it enters and leaves them again and
\* again).
C21_LockNotHeldWhileBlocked ==
    /\ [](\A t \in Threads : tpc[t] = "blocked" => STATUS_LOCK # t)
    /\ (<>[](tpc[1] = "blocked")) =>
           ([]<>(tpc[2] # "idle") /\ []<>(tpc[2] = "idle" /\ STATUS_LOCK # 2))

\* The run is blocked after a set_status of its own, and a request has read the
\* record meanwhile.
C21_Witness ==
    /\ tpc[1] = "blocked"
    /\ tpc[2] = "returned"
    /\ \E u \in Uuids : Stored(u) # {}

\* The identifier of a request matches the pattern in full: 16 characters or
\* more, each a decimal digit, a letter a-f or A-F, or a hyphen.
C22_Matches(arg) ==
    LET id == uuid_of(arg) IN
    /\ arg.given
    /\ Len(id) >= 16
    /\ \A i \in 1..Len(id) :
         id[i] \in {"0", "1", "2", "3", "4", "5", "6", "7", "8", "9",
                    "a", "b", "c", "d", "e", "f", "A", "B", "C", "D", "E", "F", "-"}

\* C22: a /start request whose identifier (the parameter without the white space
\* around it) is missing or does not match the pattern in full is answered 400
\* and changes neither the store nor the runs nor the branch; a request whose
\* identifier matches is never rejected, whatever the record holds: the response
\* it ends with is the waiting-room page.
C22_StartValidation ==
    /\ [][(qresp' # qresp /\ qresp'.route = "start") =>
            IF C22_Matches(qresp'.arg)
            THEN qresp'.code = 200 /\ qresp'.body = "WAITING_ROOM_HTML"
            ELSE /\ qresp'.code = 400
                 /\ UNCHANGED <<STATUS, remote, hvars, rlocals>>]_vars
    /\ [](\A arg \in StartArgs : start_rejects(arg) <=> ~C22_Matches(arg))

\* A request with 16 characters or more, one of them outside the class, has been
\* rejected while the identifier of Uuids has a record and a run.
C22_Witness ==
    /\ qresp.route = "start" /\ qresp.code = 400
    /\ qresp.arg.given /\ Len(uuid_of(qresp.arg)) >= 16
    /\ \E u \in Uuids : STATUS[u] # EmptyDict /\ InFlight(u) # {}

\* C23: /status changes nothing: neither a record nor a run nor a request in
\* progress.  For an identifier that has no record it answers 200 with the record
\* stage 'queued', step 0, total 3N+4, done false; for one that has a record,
\* with that record.
C23_StatusReadOnly ==
    [][(qresp' # qresp /\ qresp'.route = "status") =>
         /\ UNCHANGED <<STATUS, remote, hvars, rlocals>>
         /\ LET id == Join(uuid_of(qresp'.arg))
                known == id \in DOMAIN STATUS /\ STATUS[id] # EmptyDict IN
            uuid_of(qresp'.arg) # <<>> =>
               /\ qresp'.code = 200
               /\ ~known => qresp'.body = [stage |-> "queued", step |-> 0,
                                           total |-> (3 * Len(SCENARIOS)) + 4,
                                           done |-> FALSE]
               /\ known => qresp'.body = STATUS[id]]_vars

\* /status has answered for an identifier without a record with the synthetic
\* record (the only one that has no `error` key).
C23_Witness ==
    /\ qresp.route = "status" /\ qresp.code = 200
    /\ DOMAIN qresp.body = {"stage", "step", "total", "done"}
    /\ qresp.body.stage = "queued"

\* The step of run r in which its upload_file call ends (it returns or raises).
UploadEnds(r) == InUpload(r) /\ rpc'[r] # rpc[r]

\* The token the write of a call must carry after the read it made.
C24_TokenAfter(get) ==
    IF get.status = "200" /\ get.sha # None /\ get.sha # "" THEN get.sha ELSE None

C25_Writes(r) == InUpload(r) /\ uphase[r] = "put" /\ uphase'[r] = "get"

\* C25: with a content store that takes a write only with the current token,
\* when the path holds somebody else's content whose token is not the one the
\* upload read (the path was changed or created after the read), the write
\* changes nothing on the branch and the run goes to its exception handler, which
\* ends the job with done = true and an error; what somebody else wrote is
\* replaced only by a write that carries its token.
C25_ExternalEditsSafe ==
    /\ [][\A r \in Runs : C25_Writes(r) =>
            LET p == UploadPath(r) IN
            (files[p] \in External /\ usha[r] # TokenOf(files[p])) =>
                /\ files' = files
                /\ rpc'[r] = "except_exception"]_vars
    /\ [][\A p \in Paths :
            (files[p] \in External /\ files'[p] # files[p]) =>
                \/ edits' # edits
                \/ \E r \in Runs : /\ C25_Writes(r) /\ UploadPath(r) = p
                                   /\ usha[r] = TokenOf(files[p])]_vars
    /\ [][\A r \in Runs :
            (rpc[r] = "except_exception" /\ rpc'[r] = "idle") =>
                /\ DoneTruthy(STATUS'[ruuid[r]])
                /\ Get(STATUS'[ruuid[r]], "error") # None]_vars

\* A write with a stale token was refused, somebody else's content is still on
\* the path, and the job has ended with an error.
C25_Witness ==
    \E r \in Runs, u \in Uuids :
        /\ Len(ulog[r]) = 2
        /\ ulog[r][2].status = "409"
        /\ ulog[r][1].status = "200" /\ ulog[r][2].sha = ulog[r][1].sha
        /\ ulog[r][2].sha # None
        /\ files[ulog[r][2].path] \in External
        /\ DoneTruthy(STATUS[u]) /\ Get(STATUS[u], "error") = "Server error"
        /\ InFlight(u) = {}

\* The operations a run makes once per artifact, and the results that are
\* failures.
C26_Once == {"generate", "compile", "upload", "upload_index", "trigger"}
C26_Failures == {"nonzero", "oserror", "raise", "errored"}

C27_StepFor(u) ==
    \/ \E r \in Runs : ruuid[r] = u /\ Moves(r)
    \/ \E h \in Handlers : /\ hpc'[h] # hpc[h]
                           /\ (huuid[h] = u \/ huuid'[h] = u)

\* C27: a step taken for an identifier changes no record but that identifier's
\* and nothing of a run for another identifier; and a run for JobY comes to its
\* end wherever the threads of JobX stop.
C27_JobIndependence ==
    /\ [][\A u \in DOMAIN STATUS : C27_StepFor(u) =>
            /\ \A y \in DOMAIN STATUS \ {u} : STATUS'[y] = STATUS[y]
            /\ \A r \in Runs :
                 (ruuid[r] \notin {u, None}) =>
                    /\ rpc'[r] = rpc[r] /\ ruuid'[r] = ruuid[r]
                    /\ rstep'[r] = rstep[r] /\ rs'[r] = rs[r]
                    /\ rws'[r] = rws[r] /\ calls'[r] = calls[r]]_vars
    /\ (\E r \in Runs : ruuid[r] = JobY) ~> (\A r \in Runs : ruuid[r] # JobY)

\* The two runs are in flight at different stages, each with its own record.
C27_Witness ==
    \E rx, ry \in Runs :
        /\ ruuid[rx] = JobX /\ rpc[rx] = "upload"
        /\ ruuid[ry] = JobY /\ rpc[ry] = "compile"
        /\ Get(STATUS[JobX], "stage") = "upload_s1"
        /\ Get(STATUS[JobY], "stage") = "generate_s1"

\* A run for identifier u takes the step.
C28_RunStep(u) == \E r \in Runs : ruuid[r] = u /\ rpc[r] # "idle" /\ Moves(r)

\* C28 as stated: every change of the record of an identifier is made by a step
\* of a run for that identifier.
C28_OnlyRunsWrite ==
    [][\A u \in Uuids : STATUS'[u] # STATUS[u] => C28_RunStep(u)]_vars

\* C28, amended: every change of the record of an identifier is made by a step of
\* a run for it, or by the reset of a /start request for it, which writes stage
\* 'queued', step 0, the total, done false and error null and goes on to spawn
\* the run; a /status or /generate request, and a /start request that is rejected
\* or needs no run, change no record.
C28_RunsAndResetWrite ==
    /\ [][\A u \in Uuids : STATUS'[u] # STATUS[u] =>
            \/ C28_RunStep(u)
            \/ \E h \in Handlers :
                 /\ hpc[h] = "reset" /\ huuid[h] = u /\ hpc'[h] = "spawn"
                 /\ STATUS'[u] = [stage |-> "queued", step |-> 0,
                                  total |-> (3 * Len(SCENARIOS)) + 4,
                                  done |-> FALSE, error |-> None] @@ STATUS[u]]_vars
    /\ [][qresp' # qresp => STATUS' = STATUS]_vars

\* A /start request has reset the record after a failure and has not spawned the
\* run yet, and a /status request has been answered.
C28_Witness ==
    \E h \in Handlers :
        /\ hpc[h] = "spawn"
        /\ Get(STATUS[huuid[h]], "stage") = "queued"
        /\ "pages_url" \in DOMAIN STATUS[huuid[h]]
        /\ qresp.route = "status"

\* The fixed sequence of stages of a full run.
C29_Order ==
    <<"starting",
      "generate_s1", "compile_s1", "generate_s2", "compile_s2", "generate_s3",
      "compile_s3", "generate_s4", "compile_s4", "generate_s5", "compile_s5",
      "write_index",
      "upload_s1", "upload_s2", "upload_s3", "upload_s4", "upload_s5",
      "upload_index", "trigger_pages_build", "pages_building",
      "pages_propagating", "done">>

\* C29: the k-th stage a run publishes is the k-th of the fixed sequence.  The
\* run counts the stages it has published after 'starting' in `step`: its first
\* write publishes 'starting'; every later write that names a stage publishes the
\* next of the sequence; 'done' is published only after all the others;
\* 'already_published' only directly after 'starting'; the writes that end a run
\* otherwise name no stage, and no other step changes the count.
C29_StageOrder ==
    [][\A r \in Runs :
         LET new == Get(STATUS'[ruuid[r]], "stage")
             old == Get(STATUS[ruuid[r]], "stage") IN
         /\ Writes(r) =>
              CASE rpc[r] = "begin" -> new = C29_Order[1] /\ rstep'[r] = 0
                [] rpc[r] = "already" ->
                     new = "already_published" /\ rstep[r] = 0 /\ rstep'[r] = 0
                [] rpc[r] \in {"already_done", "build_failed",
                               "except_called_process", "except_exception"} ->
                     new = old
                [] rpc[r] = "done" ->
                     new = C29_Order[Len(C29_Order)] /\ rstep[r] = Len(C29_Order) - 2
                [] OTHER ->
                     /\ rstep'[r] = rstep[r] + 1
                     /\ rstep'[r] + 1 < Len(C29_Order)
                     /\ new = C29_Order[rstep'[r] + 1]
         /\ (rpc[r] # "idle" /\ ~Writes(r)) => rstep'[r] = rstep[r]]_vars

\* A run has published every stage but the last and is about to publish 'done'.
C29_Witness ==
    \E r \in Runs :
        /\ rpc[r] = "done"
        /\ rstep[r] = Len(C29_Order) - 2
        /\ Get(STATUS[ruuid[r]], "stage") = "pages_propagating"

\* The positions of a run that has taken the full path (the existence check
\* answered no) and has not written 'pages_propagating' yet.
C30_Before ==
    {"generate", "compile", "write_index", "upload_label",
     "upload", "upload_index_label", "upload_index", "trigger", "building",
     "propagating"}

\* C30: the write of 'pages_propagating' leaves the record with the URL of the
\* identifier and done = false, and that is the record a poller reads while the
\* run waits for the URL; before that write, the record of a run outside the
\* short-circuit path holds no URL.
C30_UrlAtPropagation ==
    /\ \A r \in Runs :
         rpc[r] = "done" =>
            /\ Get(STATUS[ruuid[r]], "pages_url") = pages_url_of(ruuid[r])
            /\ ~DoneTruthy(STATUS[ruuid[r]])
    /\ \A r \in Runs :
         rpc[r] \in C30_Before => ~UrlTruthy(STATUS[ruuid[r]])

\* The latest moment a wait can return: the last test of the deadline that
\* still enters the loop is at deadline - 1, and one query and one sleep follow.
C31_Latest == wdeadline - 1 + MaxQuerySeconds + poll_every + 1

C32_WaitResults ==
    wpc = "returned" =>
        IF wkind = "build"
        THEN /\ wret \in TerminalStatuses => wret \in wseen
             /\ wret \notin TerminalStatuses => wret = "unknown"
        ELSE /\ wret \in {"True", "False"}
             /\ wret = "True" <=> "200" \in wseen

\* 3N+4 for the N scenarios.
C33_Total == (3 * Len(SCENARIOS)) + 4

\* C33: total is fixed.  Every stored record and every record /status answers
\* with has total = 3N+4 = 19, and no step changes the total of an identifier
\* that has one.
C33_TotalFixed ==
    /\ [](C33_Total = 19)
    /\ [](\A u \in DOMAIN STATUS :
            STATUS[u] # EmptyDict =>
               ("total" \in DOMAIN STATUS[u] /\ STATUS[u].total = C33_Total))
    /\ []((qresp.route = "status" /\ qresp.code = 200) =>
             qresp.body.total = C33_Total)
    /\ [][\A u \in DOMAIN STATUS :
            (STATUS[u] # EmptyDict /\ u \in DOMAIN STATUS') =>
                Get(STATUS'[u], "total") = Get(STATUS[u], "total")]_vars

\* /status has answered with the stored record of a finished job, which /start
\* wrote once and the run many times.
C33_Witness ==
    /\ qresp.route = "status" /\ qresp.code = 200
    /\ \E u \in Uuids :
         /\ qresp.body = STATUS[u]
         /\ Get(STATUS[u], "stage") = "done"
         /\ STATUS[u].total = C33_Total

\* The record s is terminal for the page: a non-null error, or done = true with
\* pages_url set.
C34_Terminal(s) ==
    \/ ("error" \in DOMAIN s /\ s.error # None)
    \/ /\ "done" \in DOMAIN s /\ s.done = TRUE
       /\ "pages_url" \in DOMAIN s /\ s.pages_url # None

\* C34: the page polls until terminal.  A tick never stops the poller on a
\* response that is not terminal, and always stops it on one that is, unless the
\* request itself failed, after which it polls again; and every record a run
\* leaves behind when it returns, and every record with done = true, is
\* terminal, so the tick that reads it stops the poller.
C34_PollsUntilTerminal ==
    /\ [][\A u \in Uuids :
            (ppc = "polling" /\ ppc' # "polling") => C34_Terminal(PollResponse(u))]_vars
    /\ [][\A u \in Uuids :
            (ppc = "polling" /\ ~C34_Terminal(PollResponse(u))) => ppc' = "polling"]_vars
    /\ [](\A u \in Uuids :
            C34_Terminal(PollResponse(u)) <=> tick_outcome(PollResponse(u)) # "polling")
    /\ [](\A u \in Uuids : DoneTruthy(STATUS[u]) => C34_Terminal(PollResponse(u)))
    /\ [][\A r \in Runs : Returns(r) => C34_Terminal(STATUS'[ruuid[r]])]_vars

\* The page has stopped on the record of a failed job.
C34_Witness ==
    /\ ppc = "error"
    /\ \E u \in Uuids : Failed(STATUS[u]) /\ ~UrlTruthy(STATUS[u])

\* Run r made the call op for scenario k (0 for the index) before its i-th call,
\* and the call succeeded.
C35_OkBefore(r, i, op, k) ==
    \E j \in 1..(i - 1) :
        calls[r][j].op = op /\ calls[r][j].s = k /\ calls[r][j].res = "ok"

\* C35: uploads are gated on a complete build.  A run uploads only after every
\* scenario was generated and compiled and the index was written, each with
\* success; it triggers the remote build only after every artifact and the index
\* were uploaded with success; and a run in which a generator or a compiler
\* failed has uploaded nothing and triggered nothing.
C35_UploadsGated ==
    \A r \in Runs :
        /\ \A i \in 1..Len(calls[r]) :
             /\ calls[r][i].op \in {"upload", "upload_index"} =>
                   /\ \A k \in 1..Len(SCENARIOS) :
                        /\ C35_OkBefore(r, i, "generate", SCENARIOS[k])
                        /\ C35_OkBefore(r, i, "compile", SCENARIOS[k])
                   /\ C35_OkBefore(r, i, "write_index", 0)
             /\ calls[r][i].op = "trigger" =>
                   /\ \A k \in 1..Len(SCENARIOS) :
                        C35_OkBefore(r, i, "upload", SCENARIOS[k])
                   /\ C35_OkBefore(r, i, "upload_index", 0)
        /\ (\E i \in 1..Len(calls[r]) :
               calls[r][i].op \in {"generate", "compile"} /\ calls[r][i].res # "ok") =>
                   Invoked(r) \cap {"upload", "upload_index", "trigger"} = {}

\* A run has uploaded everything and triggered the remote build, while the other
\* run stopped at a compiler that failed.
C35_Witness ==
    \E r, q \in Runs :
        /\ Made(r, {"trigger"}, "ok")
        /\ calls[q] # <<>>
        /\ LastCall(q).op = "compile" /\ LastCall(q).res # "ok"

\* The stage a run has published when it makes the call c.
C36_StageOf(c) ==
    CASE c.op = "exists" -> "starting"
      [] c.op \in {"generate", "compile", "upload"} -> StageName(c.op, c.s)
      [] c.op \in {"write_index", "upload_index"} -> c.op
      [] c.op = "trigger" -> "trigger_pages_build"
      [] c.op = "wait_build" -> "pages_building"
      [] OTHER -> None

\* C36: the error write of a run changes neither stage nor step, so the record
\* of a failed run names the stage whose call failed, with that stage's step;
\* and no record with done = true and an error has stage = 'done'.
C36_FailedStage ==
    /\ [][\A r \in Runs :
            (Returns(r) /\ rpc[r] \in {"except_called_process", "except_exception",
                                       "build_failed"}) =>
                LET before == STATUS[ruuid[r]]
                    after == STATUS'[ruuid[r]] IN
                /\ Get(after, "stage") = Get(before, "stage")
                /\ Get(after, "step") = Get(before, "step")
                /\ Get(after, "stage") = C36_StageOf(LastCall(r))
                /\ Get(after, "step") = rstep[r]]_vars
    /\ [](\A u \in Uuids : Failed(STATUS[u]) => Get(STATUS[u], "stage") # "done")

\* C37: in every reachable state a record with stage = 'done' has done = true,
\* error = null, a URL and step = total.
C37_DoneRecord ==
    \A u \in Uuids :
        Get(STATUS[u], "stage") = "done" =>
            /\ DoneTruthy(STATUS[u])
            /\ Get(STATUS[u], "error") = None
            /\ UrlTruthy(STATUS[u])
            /\ Get(STATUS[u], "step") = Get(STATUS[u], "total")

\* C38: uuid_folder_exists answers true for a 200 only.  A run takes the
\* short-circuit path only when the folder is there (the one case in which the
\* store answers 200); on any answer that is not true it makes its workspace
\* and goes on to the first generator, also when the folder is there and the
\* store answered with another status; and a query that raises is the run's
\* last call, after which it ends with done = true, 'Server error' and no URL.
C38_ExistenceCheck ==
    /\ [](\A u \in Uuids : \A reply \in ExistsReplies(u) \ {"raise"} :
            uuid_folder_exists(reply) <=> reply = "200")
    /\ [][\A r \in Runs :
            (rpc[r] = "check" /\ rpc'[r] # "check") =>
                LET res == calls'[r][Len(calls'[r])].res IN
                /\ calls'[r][Len(calls'[r])].op = "exists"
                /\ res \in {"True", "False", "raise"}
                /\ rpc'[r] = "already" => remote[ruuid[r]]
                /\ res = "True" <=> rpc'[r] = "already"
                /\ res = "False" <=> (rpc'[r] = "generate" /\ rws'[r] # NoDir)
                /\ res = "raise" <=> rpc'[r] = "except_exception"]_vars
    /\ [][\A r \in Runs :
            (Returns(r) /\ LastCall(r).op = "exists" /\ LastCall(r).res = "raise") =>
                EndsFailed(r, "Server error")]_vars

\* The folder is there, the store answered the existence query with another
\* status than 200, and the run is at its first generator.
C38_Witness ==
    \E r \in Runs :
        /\ rpc[r] = "generate" /\ rs[r] = 1
        /\ remote[ruuid[r]]
        /\ Len(calls[r]) = 1 /\ calls[r][1].res = "False"

\* C39: /generate is a pure redirect.  Its answer is determined by its argument
\* alone: 302 to /start?uuid= followed by the identifier (the argument without
\* the white space around it) when that is not empty, 400 'Missing uuid' when
\* it is; and the request changes no record, no request in progress and no run.
C39_GenerateRedirects ==
    [][(qresp' # qresp /\ qresp'.route = "generate") =>
         /\ UNCHANGED <<STATUS, remote, hvars, rlocals>>
         /\ LET id == IF qresp'.arg.given THEN strip(qresp'.arg.value) ELSE <<>> IN
            IF id = <<>>
            THEN qresp'.code = 400 /\ qresp'.body = "Missing uuid"
            ELSE /\ qresp'.code = 302
                 /\ qresp'.body = "/start?uuid=" \o Join(id)]_vars

\* /generate has answered with the redirect for an identifier that has a run in
\* flight and a record, and the run is still where it was.
C39_Witness ==
    /\ qresp.route = "generate" /\ qresp.code = 302
    /\ \E r \in Runs :
         /\ rpc[r] = "compile"
         /\ qresp.body = "/start?uuid=" \o ruuid[r]
         /\ STATUS[ruuid[r]] # EmptyDict

\* Invocation i has printed its output.
C40_Finished(i) == gpc[i] = "done"

====
